---- MODULE Spec2Model ----
(***************************************************************************)
(* A model of nabs: the content-addressed dependency graph (graph.rs), the *)
(* inference pipeline and the recursive graph builder (infer.rs), and the  *)
(* changeset query (commands/changeset.rs).                                *)
(***************************************************************************)
EXTENDS Integers, Sequences, FiniteSets, TLC

VARIABLES
    g,            \* the TargetGraph being mutated
    last,         \* the most recent TargetGraph call: operation, arguments, graph before, result
    added,        \* every Target ever passed to add_node
    infers,       \* InferRunner.infers: per plugin, per package, the InferResult it gives
    start,        \* the seed raw targets given to build_graph
    si,           \* position of build_graph's loop over the seeds
    stack,        \* the nested build_graph_rec calls, innermost last
    our_targets,  \* build_graph's accumulated seed targets
    pc,           \* where the caller is: "api", "queried", "infer", "inferred",
                  \* "run", "done", "failed", "panic", "answered"
    calls,        \* every add_edge call the builder issued, with the graph it was issued on
    warned        \* parents whose recursive build failed and was reported as a warning

vars == <<g, last, added, infers, start, si, stack, our_targets, pc, calls, warned>>

---------------------------------------------------------------------------
(* Bounds *)

MaxGraphEdges == 2
MaxStarts == 2
NumInfers == 3
MaxParents == 2
MaxDecls == 3

---------------------------------------------------------------------------
(* types.rs: Target, RawTarget *)

Names == {"a", "b", "c"}

CARGO_FLAVOR == "cargo"

FLAVOR == "python_requirements"

Flavors == {CARGO_FLAVOR, FLAVOR}

Target(name, flavor) == [name |-> name, flavor |-> flavor]

Targets == [name : Names, flavor : Flavors]

RawTarget(name) == [name |-> name]

---------------------------------------------------------------------------
(* graph.rs: TargetGraph *)

\* petgraph's Graph<(), ()>: nodes are the indices 0..node_count-1, edges a
\* vector of (source, target) pairs in insertion order.
TargetGraph_new ==
    [inner |-> [node_count |-> 0, edges |-> <<>>],
     target_by_index |-> <<>>,
     index_by_target |-> <<>>]

Some(v) == [some |-> TRUE, val |-> v]

None == [some |-> FALSE]

Ok(v) == [ok |-> TRUE, val |-> v]

Err(e) == [ok |-> FALSE, panic |-> FALSE, err |-> e]

\* panic!, expect: the process aborts
Panic(e) == [ok |-> FALSE, panic |-> TRUE, err |-> e]

\* HashMap::get
MapGet(m, k) == IF k \in DOMAIN m THEN Some(m[k]) ELSE None

\* HashMap::insert
MapInsert(m, k, v) == [x \in (DOMAIN m) \cup {k} |-> IF x = k THEN v ELSE m[x]]

node_weight(inner, idx) == IF idx < inner.node_count THEN Some(<<>>) ELSE None

contains_node(gr, node) ==
    LET index == MapGet(gr.target_by_index, node)
    IN  IF ~index.some THEN FALSE
        ELSE node_weight(gr.inner, index.val).some

add_node_half_mapped(gr, node) ==
    IF node \in DOMAIN gr.target_by_index THEN gr
    ELSE LET index == gr.inner.node_count
         IN  [inner |-> [gr.inner EXCEPT !.node_count = @ + 1],
              index_by_target |-> gr.index_by_target,
              target_by_index |-> MapInsert(gr.target_by_index, node, index)]

add_node_always(gr, node) ==
    LET index == gr.inner.node_count
    IN  [inner |-> [gr.inner EXCEPT !.node_count = @ + 1],
         index_by_target |-> MapInsert(gr.index_by_target, index, node),
         target_by_index |-> MapInsert(gr.target_by_index, node, index)]

add_node_by_name(gr, node) ==
    IF \E u \in DOMAIN gr.target_by_index : u.name = node.name THEN gr
    ELSE LET index == gr.inner.node_count
         IN  [inner |-> [gr.inner EXCEPT !.node_count = @ + 1],
              index_by_target |-> MapInsert(gr.index_by_target, index, node),
              target_by_index |-> MapInsert(gr.target_by_index, node, index)]

add_node(gr, node) ==
    IF node \in DOMAIN gr.target_by_index THEN gr
    ELSE LET index == gr.inner.node_count
         IN  [inner |-> [gr.inner EXCEPT !.node_count = @ + 1],
              index_by_target |-> MapInsert(gr.index_by_target, index, node),
              target_by_index |-> MapInsert(gr.target_by_index, node, index)]

get_cloned_node_index(gr, target) ==
    LET d == MapGet(gr.target_by_index, target)
    IN  IF d.some THEN Ok(d.val) ELSE Err("index not found")

contains_edge(inner, s, d) == \E k \in 1..Len(inner.edges) : inner.edges[k] = <<s, d>>

add_edge_inserting(gr, src, dest) ==
    LET gn == add_node(add_node(gr, src), dest)
    IN  IF contains_edge(gn.inner, gn.target_by_index[src], gn.target_by_index[dest])
        THEN [res |-> Ok(<<>>), g |-> gn]
        ELSE [res |-> Ok(<<>>),
              g |-> [gn EXCEPT !.inner.edges =
                                  Append(@, <<gn.target_by_index[src], gn.target_by_index[dest]>>)]]

add_edge_always(gr, src, dest) ==
    LET s == get_cloned_node_index(gr, src)
        d == get_cloned_node_index(gr, dest)
    IN  IF ~s.ok THEN [res |-> s, g |-> gr]
        ELSE IF ~d.ok THEN [res |-> d, g |-> gr]
        ELSE [res |-> Ok(<<>>),
              g |-> [gr EXCEPT !.inner.edges = Append(@, <<s.val, d.val>>)]]

add_edge_overwriting(gr, src, dest) ==
    LET s == get_cloned_node_index(gr, src)
        d == get_cloned_node_index(gr, dest)
    IN  IF ~s.ok THEN [res |-> s, g |-> gr]
        ELSE IF ~d.ok THEN [res |-> d, g |-> gr]
        ELSE IF contains_edge(gr.inner, s.val, d.val) THEN [res |-> Ok(<<>>), g |-> gr]
        ELSE IF gr.inner.edges = <<>>
             THEN [res |-> Ok(<<>>), g |-> [gr EXCEPT !.inner.edges = <<<<s.val, d.val>>>>]]
             ELSE [res |-> Ok(<<>>),
                   g |-> [gr EXCEPT !.inner.edges[Len(gr.inner.edges)] = <<s.val, d.val>>]]

\* add_edge gives back the result and the graph it leaves.
add_edge(gr, src, dest) ==
    LET s == get_cloned_node_index(gr, src)
        d == get_cloned_node_index(gr, dest)
    IN  IF ~s.ok THEN [res |-> s, g |-> gr]
        ELSE IF ~d.ok THEN [res |-> d, g |-> gr]
        ELSE IF contains_edge(gr.inner, s.val, d.val) THEN [res |-> Ok(<<>>), g |-> gr]
        ELSE [res |-> Ok(<<>>),
              g |-> [gr EXCEPT !.inner.edges = Append(@, <<s.val, d.val>>)]]

RECURSIVE inner_neighbors_incoming(_, _, _)
inner_neighbors_incoming(inner, idx, k) ==
    IF k = 0 THEN <<>>
    ELSE IF inner.edges[k][2] = idx
         THEN <<inner.edges[k][1]>> \o inner_neighbors_incoming(inner, idx, k - 1)
         ELSE inner_neighbors_incoming(inner, idx, k - 1)

\* petgraph's Graph::neighbors: the targets of the outgoing edges of idx, the
\* most recently added edge first.
RECURSIVE inner_neighbors(_, _, _)
inner_neighbors(inner, idx, k) ==
    IF k = 0 THEN <<>>
    ELSE IF inner.edges[k][1] = idx
         THEN <<inner.edges[k][2]>> \o inner_neighbors(inner, idx, k - 1)
         ELSE inner_neighbors(inner, idx, k - 1)

push_succs_none(stk, succs, discovered) == stk

\* the body of Dfs::next's loop over the successors: push the undiscovered ones
RECURSIVE push_succs(_, _, _)
push_succs(stk, succs, discovered) ==
    IF succs = <<>> THEN stk
    ELSE push_succs(IF Head(succs) \in discovered THEN stk ELSE Append(stk, Head(succs)),
                    Tail(succs), discovered)

RECURSIVE dfs_run_unmarked(_, _, _, _)
dfs_run_unmarked(inner, stk, discovered, res) ==
    IF stk = <<>> THEN res
    ELSE LET node == stk[Len(stk)]
             rest == SubSeq(stk, 1, Len(stk) - 1)
         IN  IF node \in discovered THEN dfs_run_unmarked(inner, rest, discovered, Append(res, node))
             ELSE dfs_run_unmarked(inner,
                          push_succs(rest, inner_neighbors(inner, node, Len(inner.edges)),
                                     discovered \cup {node}),
                          discovered \cup {node},
                          Append(res, node))

\* the `while let Some(next_index) = dfs.next(..)` loop of rdeps: the visited
\* indices in visiting order
RECURSIVE dfs_run(_, _, _, _)
dfs_run(inner, stk, discovered, res) ==
    IF stk = <<>> THEN res
    ELSE LET node == stk[Len(stk)]
             rest == SubSeq(stk, 1, Len(stk) - 1)
         IN  IF node \in discovered THEN dfs_run(inner, rest, discovered, res)
             ELSE dfs_run(inner,
                          push_succs(rest, inner_neighbors(inner, node, Len(inner.edges)),
                                     discovered \cup {node}),
                          discovered \cup {node},
                          Append(res, node))

\* how many times Dfs::next pops its stack until the stack is empty
RECURSIVE dfs_pops(_, _, _)
dfs_pops(inner, stk, discovered) ==
    IF stk = <<>> THEN 0
    ELSE 1 + (IF stk[Len(stk)] \in discovered
              THEN dfs_pops(inner, SubSeq(stk, 1, Len(stk) - 1), discovered)
              ELSE dfs_pops(inner,
                            push_succs(SubSeq(stk, 1, Len(stk) - 1),
                                       inner_neighbors(inner, stk[Len(stk)], Len(inner.edges)),
                                       discovered \cup {stk[Len(stk)]}),
                            discovered \cup {stk[Len(stk)]}))

RECURSIVE rdeps_indices_skipping(_, _, _)
rdeps_indices_skipping(gr, targets, k) ==
    IF k > Len(targets) THEN Ok(<<>>)
    ELSE LET i == get_cloned_node_index(gr, targets[k])
             more == rdeps_indices_skipping(gr, targets, k + 1)
         IN  IF ~i.ok THEN more ELSE Ok(<<i.val>> \o more.val)

\* the first loop of rdeps: the index of every start, or the first failure
RECURSIVE rdeps_indices(_, _, _)
rdeps_indices(gr, targets, k) ==
    IF k > Len(targets) THEN Ok(<<>>)
    ELSE LET i == get_cloned_node_index(gr, targets[k])
         IN  IF ~i.ok THEN i
             ELSE LET more == rdeps_indices(gr, targets, k + 1)
                  IN  IF ~more.ok THEN more ELSE Ok(<<i.val>> \o more.val)

rdeps(gr, targets) ==
    LET indices == rdeps_indices(gr, targets, 1)
    IN  IF ~indices.ok THEN indices
        ELSE LET order == dfs_run(gr.inner, indices.val, {}, <<>>)
             IN  IF \E k \in 1..Len(order) : order[k] \notin DOMAIN gr.index_by_target
                 THEN Panic("corrupted graph state")
                 ELSE Ok([k \in 1..Len(order) |-> gr.index_by_target[order[k]]])

neighbors(gr, target) ==
    LET node_idx == get_cloned_node_index(gr, target)
    IN  IF ~node_idx.ok THEN node_idx
        ELSE LET ns == inner_neighbors(gr.inner, node_idx.val, Len(gr.inner.edges))
             IN  IF \E k \in 1..Len(ns) : ns[k] \notin DOMAIN gr.index_by_target
                 THEN Err("corrupted graph state")
                 ELSE Ok([k \in 1..Len(ns) |-> gr.index_by_target[ns[k]]])

\* Display::fmt: one line per node index, the node and its neighbors; both
\* lookups are `expect("corrupted graph state")`
fmt(gr) ==
    IF \E idx \in 0..gr.inner.node_count - 1 :
          \/ idx \notin DOMAIN gr.index_by_target
          \/ \E k \in 1..Len(inner_neighbors(gr.inner, idx, Len(gr.inner.edges))) :
                inner_neighbors(gr.inner, idx, Len(gr.inner.edges))[k] \notin DOMAIN gr.index_by_target
    THEN Panic("corrupted graph state")
    ELSE Ok([n \in 1..gr.inner.node_count |->
                [node |-> gr.index_by_target[n - 1],
                 neighbors |-> [k \in 1..Len(inner_neighbors(gr.inner, n - 1, Len(gr.inner.edges))) |->
                                  gr.index_by_target[inner_neighbors(gr.inner, n - 1, Len(gr.inner.edges))[k]]]]])


---------------------------------------------------------------------------
(* infer/core.rs: what a plugin returns *)

Continue == "Continue"

Break == "Break"

Single(target, parents, failed_parents) ==
    [target |-> target, parents |-> parents, failed_parents |-> failed_parents]

Nothing == [kind |-> "Nothing"]

One(s) == [kind |-> "One", single |-> s]

Many(m) == [kind |-> "Many", many |-> m]

InferResult(inferred_target, what_next) ==
    [ok |-> TRUE, inferred_target |-> inferred_target, what_next |-> what_next]

---------------------------------------------------------------------------
(* infer.rs: the plugin pipeline *)

\* Infer::from_raw_target of plugin k
from_raw_target(k, raw) == infers[k][raw.name]

RECURSIVE raw_run_inferrers_break_on_match(_, _, _, _)
raw_run_inferrers_break_on_match(raw, k, inferred_targets, called) ==
    IF k > Len(infers) THEN [res |-> Ok(inferred_targets), called |-> called]
    ELSE LET inf_res == from_raw_target(k, raw)
             now == Append(called, k)
         IN  IF ~inf_res.ok
             THEN [res |-> Err("failed in building graph of targets"), called |-> now]
             ELSE IF inf_res.inferred_target = Nothing
                  THEN raw_run_inferrers_break_on_match(raw, k + 1, inferred_targets, now)
                  ELSE LET its == Append(inferred_targets, inf_res.inferred_target)
                       IN  IF inf_res.what_next = Break THEN [res |-> Ok(its), called |-> now]
                           ELSE raw_run_inferrers_break_on_match(raw, k + 1, its, now)

\* the `for inf in &self.infers` loop, from plugin k on; `called` lists the
\* plugins invoked so far
RECURSIVE raw_run_inferrers_from(_, _, _, _)
raw_run_inferrers_from(raw, k, inferred_targets, called) ==
    IF k > Len(infers) THEN [res |-> Ok(inferred_targets), called |-> called]
    ELSE LET inf_res == from_raw_target(k, raw)
             now == Append(called, k)
         IN  IF ~inf_res.ok
             THEN [res |-> Err("failed in building graph of targets"), called |-> now]
             ELSE LET its == IF inf_res.inferred_target = Nothing THEN inferred_targets
                             ELSE Append(inferred_targets, inf_res.inferred_target)
                  IN  IF inf_res.what_next = Break THEN [res |-> Ok(its), called |-> now]
                      ELSE raw_run_inferrers_from(raw, k + 1, its, now)

raw_run_inferrers(raw) == raw_run_inferrers_from(raw, 1, <<>>, <<>>)

validate_inferred_targets_one_message(raw, inferred_targets) ==
    IF Len(inferred_targets) # 1 THEN Err("multiple build systems were inferred")
    ELSE Ok(<<>>)

validate_inferred_targets_first_wins(raw, inferred_targets) ==
    IF Len(inferred_targets) = 0 THEN Err("could not infer any target")
    ELSE Ok(<<>>)

validate_inferred_targets(raw, inferred_targets) ==
    IF Len(inferred_targets) > 1 THEN Err("multiple build systems were inferred")
    ELSE IF Len(inferred_targets) = 0 THEN Err("could not infer any target")
    ELSE Ok(<<>>)

run_inf_first_flavor(raw) ==
    LET inferred_targets == raw_run_inferrers(raw).res
    IN  IF ~inferred_targets.ok THEN inferred_targets
        ELSE LET v == validate_inferred_targets(raw, inferred_targets.val)
             IN  IF ~v.ok THEN v
                 ELSE LET t == inferred_targets.val[1]
                      IN  IF t.kind = "One" THEN Ok(<<t.single>>)
                          ELSE IF t.kind = "Many"
                               THEN Ok(IF t.many = <<>> THEN <<>> ELSE <<Head(t.many)>>)
                          ELSE Panic("inferred_targets is a list with only Nothing inside")

run_inf(raw) ==
    LET inferred_targets == raw_run_inferrers(raw).res
    IN  IF ~inferred_targets.ok THEN inferred_targets
        ELSE LET v == validate_inferred_targets(raw, inferred_targets.val)
             IN  IF ~v.ok THEN v
                 ELSE LET t == inferred_targets.val[1]
                      IN  IF t.kind = "One" THEN Ok(<<t.single>>)
                          ELSE IF t.kind = "Many" THEN Ok(t.many)
                          ELSE Panic("inferred_targets is a list with only Nothing inside")

---------------------------------------------------------------------------
(* The TargetGraph API driven by an arbitrary caller. As the commands do    *)
(* (changeset.rs:21-22, commands/graph.rs:16-18), the caller first builds  *)
(* the graph with any sequence of add_node and add_edge calls and then     *)
(* asks it one question; the query methods take &self.                     *)

\* the Targets the caller of the graph API uses: two flavors of one package
\* and another package
GraphTargets ==
    {Target("a", CARGO_FLAVOR), Target("a", FLAVOR), Target("b", CARGO_FLAVOR)}

RECURSIVE SeqsUpTo(_, _)
SeqsUpTo(S, n) ==
    IF n = 0 THEN {<<>>}
    ELSE LET shorter == SeqsUpTo(S, n - 1)
         IN  shorter \cup {Append(s, x) : s \in {q \in shorter : Len(q) = n - 1}, x \in S}

NoCall == [op |-> "none"]

InitIdle ==
    /\ infers = <<>>
    /\ start = <<>>
    /\ si = 1
    /\ stack = <<>>
    /\ our_targets = <<>>
    /\ pc = "api"
    /\ calls = {}
    /\ warned = {}

InitGraph ==
    /\ g = TargetGraph_new
    /\ last = NoCall
    /\ added = {}
    /\ InitIdle

builderVars == <<infers, start, si, stack, our_targets, calls, warned>>

CallAddNode ==
    \E t \in GraphTargets :
        /\ pc = "api"
        /\ g' = add_node(g, t)
        /\ added' = added \cup {t}
        /\ last' = [op |-> "add_node", node |-> t, pre |-> g]
        /\ UNCHANGED <<pc, builderVars>>

CallAddEdge ==
    \E s \in GraphTargets, d \in GraphTargets :
        LET r == add_edge(g, s, d)
        IN  /\ pc = "api"
            /\ Len(r.g.inner.edges) <= MaxGraphEdges
            /\ g' = r.g
            /\ last' = [op |-> "add_edge", src |-> s, dest |-> d, pre |-> g, res |-> r.res]
            /\ UNCHANGED <<added, pc, builderVars>>

CallContainsNode ==
    \E t \in GraphTargets :
        /\ pc = "api"
        /\ last' = [op |-> "contains_node", node |-> t, pre |-> g, res |-> contains_node(g, t)]
        /\ pc' = "queried"
        /\ UNCHANGED <<g, added, builderVars>>

CallNeighbors ==
    \E t \in GraphTargets :
        /\ pc = "api"
        /\ last' = [op |-> "neighbors", target |-> t, pre |-> g, res |-> neighbors(g, t)]
        /\ pc' = "queried"
        /\ UNCHANGED <<g, added, builderVars>>

CallRdeps ==
    \E ts \in SeqsUpTo(GraphTargets, MaxStarts) :
        /\ pc = "api"
        /\ last' = [op |-> "rdeps", targets |-> ts, pre |-> g, res |-> rdeps(g, ts)]
        /\ pc' = "queried"
        /\ UNCHANGED <<g, added, builderVars>>

CallFmt ==
    /\ pc = "api"
    /\ last' = [op |-> "fmt", pre |-> g, res |-> fmt(g)]
    /\ pc' = "queried"
    /\ UNCHANGED <<g, added, builderVars>>

NextGraph ==
    \/ CallAddNode
    \/ CallAddEdge
    \/ CallContainsNode
    \/ CallNeighbors
    \/ CallRdeps
    \/ CallFmt

SpecGraph == InitGraph /\ [][NextGraph]_vars

---------------------------------------------------------------------------
(* infer.rs: build_graph and build_graph_rec, one step per loop iteration, *)
(* call and return. A frame of `stack` is one build_graph_rec call: its    *)
(* raw target, its our_inferred_targets, the position i of `for our` and   *)
(* the position j of `for p in &our.parents` (0: not in the parent loop).  *)

Frame(raw, ours) == [raw |-> raw, ours |-> ours, i |-> 1, j |-> 0]

Top == stack[Len(stack)]

SetTop(f) == [stack EXCEPT ![Len(stack)] = f]

after_parent_first_only(f) == [f EXCEPT !.i = @ + 1, !.j = 0]

after_parent_again(f) == f

\* the end of one iteration of the parent loop: the next parent, or the next
\* of our targets when that was the last parent
after_parent(f) ==
    IF f.j < Len(f.ours[f.i].parents) THEN [f EXCEPT !.j = @ + 1]
    ELSE [f EXCEPT !.i = @ + 1, !.j = 0]

after_add_node_first_flavor(f) ==
    IF Len(f.ours[f.i].parents) = 0 \/ f.i > 1 THEN [f EXCEPT !.i = @ + 1]
    ELSE [f EXCEPT !.j = 1]

\* after add_node: into the parent loop, or past it when there are no parents
after_add_node(f) ==
    IF Len(f.ours[f.i].parents) = 0 THEN [f EXCEPT !.i = @ + 1]
    ELSE [f EXCEPT !.j = 1]

\* `our_inferred_targets.into_iter().map(|i| i.target).collect()`
targets_of(ours) == [k \in 1..Len(ours) |-> ours[k].target]

link_reversed(pt, our) == <<our, pt>>

link_same_flavor(pt, our) == <<Target(pt.name, our.flavor), our>>

\* the arguments of the builder's add_edge call: (source, destination)
link(pt, our) == <<pt, our>>

\* the `for pt in parent_targets` loop: add_edge(&pt, &our.target).expect(..)
RECURSIVE add_parent_edges(_, _, _, _, _)
add_parent_edges(gr, parent_targets, our, k, issued) ==
    IF k > Len(parent_targets) THEN [ok |-> TRUE, g |-> gr, issued |-> issued]
    ELSE LET e == link(parent_targets[k], our)
             r == add_edge(gr, e[1], e[2])
             call == [src |-> e[1], dest |-> e[2],
                      src_in |-> contains_node(gr, e[1]),
                      dest_in |-> contains_node(gr, e[2])]
         IN  IF ~r.res.ok THEN [ok |-> FALSE, g |-> r.g, issued |-> issued \cup {call}]
             ELSE add_parent_edges(r.g, parent_targets, our, k + 1, issued \cup {call})

\* build_graph's loop calls build_graph_rec on the next seed; its inference succeeds
BuildGraphCall ==
    /\ pc = "run"
    /\ stack = <<>>
    /\ si <= Len(start)
    /\ LET r == run_inf(start[si])
       IN  /\ r.ok
           /\ stack' = <<Frame(start[si], r.val)>>
    /\ UNCHANGED <<g, last, added, infers, start, si, our_targets, pc, calls, warned>>

BuildGraphFail_skipping ==
    /\ pc = "run"
    /\ stack = <<>>
    /\ si <= Len(start)
    /\ LET r == run_inf(start[si])
       IN  /\ ~r.ok
           /\ si' = si + 1
    /\ UNCHANGED <<g, last, added, infers, start, stack, our_targets, pc, calls, warned>>

BuildGraphFail_unless_ambiguous ==
    /\ pc = "run"
    /\ stack = <<>>
    /\ si <= Len(start)
    /\ LET r == run_inf(start[si])
       IN  /\ ~r.ok
           /\ IF r = Err("multiple build systems were inferred")
              THEN si' = si + 1 /\ UNCHANGED pc
              ELSE pc' = (IF r.panic THEN "panic" ELSE "failed") /\ UNCHANGED si
    /\ UNCHANGED <<g, last, added, infers, start, stack, our_targets, calls, warned>>

\* the seed's inference fails: `?` ends build_graph with the error
BuildGraphFail ==
    /\ pc = "run"
    /\ stack = <<>>
    /\ si <= Len(start)
    /\ LET r == run_inf(start[si])
       IN  /\ ~r.ok
           /\ pc' = IF r.panic THEN "panic" ELSE "failed"
    /\ UNCHANGED <<g, last, added, infers, start, si, stack, our_targets, calls, warned>>

RecSkip_dropping ==
    /\ pc = "run"
    /\ stack # <<>>
    /\ Top.j = 0
    /\ Top.i <= Len(Top.ours)
    /\ contains_node(g, Top.ours[Top.i].target)
    /\ stack' = SetTop([Top EXCEPT !.ours = SubSeq(@, 1, Top.i - 1) \o SubSeq(@, Top.i + 1, Len(@))])
    /\ UNCHANGED <<g, last, added, infers, start, si, our_targets, pc, calls, warned>>

RecSkip_rewalking ==
    /\ pc = "run"
    /\ stack # <<>>
    /\ Top.j = 0
    /\ Top.i <= Len(Top.ours)
    /\ contains_node(g, Top.ours[Top.i].target)
    /\ stack' = SetTop(after_add_node(Top))
    /\ UNCHANGED <<g, last, added, infers, start, si, our_targets, pc, calls, warned>>

\* `if g.contains_node(&our.target) { continue; }`
RecSkip ==
    /\ pc = "run"
    /\ stack # <<>>
    /\ Top.j = 0
    /\ Top.i <= Len(Top.ours)
    /\ contains_node(g, Top.ours[Top.i].target)
    /\ stack' = SetTop([Top EXCEPT !.i = @ + 1])
    /\ UNCHANGED <<g, last, added, infers, start, si, our_targets, pc, calls, warned>>

RecAddNode_with_parents ==
    /\ pc = "run"
    /\ stack # <<>>
    /\ Top.j = 0
    /\ Top.i <= Len(Top.ours)
    /\ ~contains_node(g, Top.ours[Top.i].target)
    /\ LET our == Top.ours[Top.i]
           with_us == add_node(g, our.target)
       IN  IF our.parents = <<>>
           THEN g' = with_us /\ added' = added \cup {our.target}
           ELSE /\ g' = add_node(with_us, Target(our.parents[1].name, our.target.flavor))
                /\ added' = added \cup {our.target, Target(our.parents[1].name, our.target.flavor)}
    /\ stack' = SetTop(after_add_node(Top))
    /\ UNCHANGED <<last, infers, start, si, our_targets, pc, calls, warned>>

RecAddNode_deferred ==
    /\ pc = "run"
    /\ stack # <<>>
    /\ Top.j = 0
    /\ Top.i <= Len(Top.ours)
    /\ ~contains_node(g, Top.ours[Top.i].target)
    /\ stack' = SetTop(after_add_node(Top))
    /\ UNCHANGED <<g, added, last, infers, start, si, our_targets, pc, calls, warned>>

\* `g.add_node(our.target.clone())`
RecAddNode ==
    /\ pc = "run"
    /\ stack # <<>>
    /\ Top.j = 0
    /\ Top.i <= Len(Top.ours)
    /\ ~contains_node(g, Top.ours[Top.i].target)
    /\ g' = add_node(g, Top.ours[Top.i].target)
    /\ added' = added \cup {Top.ours[Top.i].target}
    /\ stack' = SetTop(after_add_node(Top))
    /\ UNCHANGED <<last, infers, start, si, our_targets, pc, calls, warned>>

\* `match self.build_graph_rec(g, p)`: the call, when p's inference succeeds
RecParentCall ==
    /\ pc = "run"
    /\ stack # <<>>
    /\ Top.j >= 1
    /\ LET p == Top.ours[Top.i].parents[Top.j]
           r == run_inf(p)
       IN  /\ r.ok
           /\ stack' = Append(stack, Frame(p, r.val))
    /\ UNCHANGED <<g, last, added, infers, start, si, our_targets, pc, calls, warned>>

RecParentFailed_half_built ==
    /\ pc = "run"
    /\ stack # <<>>
    /\ Top.j >= 1
    /\ LET p == Top.ours[Top.i].parents[Top.j]
           r == run_inf(p)
       IN  /\ ~r.ok
           /\ IF r.panic
              THEN pc' = "panic" /\ UNCHANGED <<g, added, stack, warned>>
              ELSE /\ g' = add_node(g, Target(p.name, CARGO_FLAVOR))
                   /\ added' = added \cup {Target(p.name, CARGO_FLAVOR)}
                   /\ warned' = warned \cup {[package |-> p.name, of |-> Top.ours[Top.i].target]}
                   /\ stack' = SetTop(after_parent(Top))
                   /\ UNCHANGED pc
    /\ UNCHANGED <<last, infers, start, si, our_targets, calls>>

RecParentFailed_aborting ==
    /\ pc = "run"
    /\ stack # <<>>
    /\ Top.j >= 1
    /\ LET p == Top.ours[Top.i].parents[Top.j]
           r == run_inf(p)
       IN  /\ ~r.ok
           /\ pc' = IF r.panic THEN "panic" ELSE "failed"
    /\ UNCHANGED <<g, last, added, infers, start, si, stack, our_targets, calls, warned>>

\* the call when p's inference fails: the Err arm prints the warning
RecParentFailed ==
    /\ pc = "run"
    /\ stack # <<>>
    /\ Top.j >= 1
    /\ LET p == Top.ours[Top.i].parents[Top.j]
           r == run_inf(p)
       IN  /\ ~r.ok
           /\ IF r.panic
              THEN pc' = "panic" /\ UNCHANGED <<stack, warned>>
              ELSE /\ warned' = warned \cup {[package |-> p.name, of |-> Top.ours[Top.i].target]}
                   /\ stack' = SetTop(after_parent(Top))
                   /\ UNCHANGED pc
    /\ UNCHANGED <<g, last, added, infers, start, si, our_targets, calls>>

\* a nested call returns its targets: the Ok arm of the caller adds the edges
RecReturn ==
    /\ pc = "run"
    /\ Len(stack) >= 2
    /\ Top.j = 0
    /\ Top.i > Len(Top.ours)
    /\ LET caller == stack[Len(stack) - 1]
           our == caller.ours[caller.i]
           r == add_parent_edges(g, targets_of(Top.ours), our.target, 1, {})
       IN  /\ g' = r.g
           /\ calls' = calls \cup r.issued
           /\ IF r.ok
              THEN /\ stack' = [SubSeq(stack, 1, Len(stack) - 1)
                                  EXCEPT ![Len(stack) - 1] = after_parent(caller)]
                   /\ UNCHANGED pc
              ELSE pc' = "panic" /\ UNCHANGED stack
    /\ UNCHANGED <<last, added, infers, start, si, our_targets, warned>>

\* the seed's call returns: `our_targets.extend(..)`
BuildGraphReturn ==
    /\ pc = "run"
    /\ Len(stack) = 1
    /\ Top.j = 0
    /\ Top.i > Len(Top.ours)
    /\ our_targets' = our_targets \o targets_of(Top.ours)
    /\ si' = si + 1
    /\ stack' = <<>>
    /\ UNCHANGED <<g, last, added, infers, start, pc, calls, warned>>

\* `Ok((g, our_targets))`
BuildGraphDone ==
    /\ pc = "run"
    /\ stack = <<>>
    /\ si > Len(start)
    /\ pc' = "done"
    /\ UNCHANGED <<g, last, added, infers, start, si, stack, our_targets, calls, warned>>

---------------------------------------------------------------------------
(* commands/changeset.rs *)

\* `.filter(|t| to_search.contains(&t.name))`
RECURSIVE filter_our_targets(_, _)
filter_our_targets(ts, to_search) ==
    IF ts = <<>> THEN <<>>
    ELSE IF Head(ts).name \in to_search
         THEN <<Head(ts)>> \o filter_our_targets(Tail(ts), to_search)
         ELSE filter_our_targets(Tail(ts), to_search)

SeedNames == {start[k].name : k \in 1..Len(start)}

\* get_changeset after build_graph: the seed targets of the changed packages
\* (owning packages are discovered packages, the seeds), then rdeps
GetChangeset ==
    /\ pc = "done"
    /\ \E to_search \in SUBSET SeedNames :
        LET ours == filter_our_targets(our_targets, to_search)
        IN  last' = [op |-> "rdeps", targets |-> ours, pre |-> g, res |-> rdeps(g, ours),
                     to_search |-> to_search]
    /\ pc' = "answered"
    /\ UNCHANGED <<g, added, infers, start, si, stack, our_targets, calls, warned>>

---------------------------------------------------------------------------
(* The repositories the builder runs on: for every package, what each      *)
(* plugin answers. The answers are those the plugins of the repository     *)
(* give: CargoInfer and PyRequirementsInfer answer Nothing or One with      *)
(* Continue, CargoInfer fails on a manifest that does not parse, and        *)
(* MockInfer answers One with Continue for one flavor and Many with Break   *)
(* for any other number of flavors (none included), all flavors sharing     *)
(* the parents.                                                            *)

Quiet == [k \in 1..NumInfers |-> InferResult(Nothing, Continue)]

RawTargets == {RawTarget(n) : n \in Names}

ParentLists == SeqsUpTo(RawTargets, MaxParents)

\* what the plugins answer for package n when its directory is of kind d.kind
\* and its manifest declares the parents d.ps
Column(n, d) ==
    CASE d.kind = "absent" -> Quiet
      [] d.kind = "unreadable" -> [Quiet EXCEPT ![1] = Err("manifest does not parse")]
      [] d.kind = "ambiguous" ->
            [Quiet EXCEPT ![1] = InferResult(One(Single(Target(n, CARGO_FLAVOR), <<>>, <<>>)), Continue),
                          ![NumInfers] = InferResult(One(Single(Target(n, FLAVOR), <<>>, <<>>)), Continue)]
      [] d.kind = "one" ->
            [Quiet EXCEPT ![1] = InferResult(One(Single(Target(n, CARGO_FLAVOR), d.ps, <<>>)), Continue)]
      [] d.kind = "none_of_many" ->
            [Quiet EXCEPT ![1] = InferResult(Many(<<>>), Break)]
      [] d.kind = "many" ->
            [Quiet EXCEPT ![1] = InferResult(Many(<<Single(Target(n, FLAVOR), d.ps, <<>>),
                                                    Single(Target(n, CARGO_FLAVOR), d.ps, <<>>)>>), Break)]

Descriptions ==
    [kind : {"absent", "unreadable", "ambiguous", "none_of_many"}, ps : {<<>>}]
    \cup [kind : {"one", "many"}, ps : ParentLists]

RECURSIVE Decls(_, _)
Decls(desc, S) ==
    IF S = {} THEN 0
    ELSE LET n == CHOOSE x \in S : TRUE
         IN  Len(desc[n].ps) + Decls(desc, S \ {n})

Repositories == {desc \in [Names -> Descriptions] : Decls(desc, Names) <= MaxDecls}

\* the packages are interchangeable, so the seeds are taken in one order
SeedOrder == <<"a", "b", "c">>

SeedLists == {[k \in 1..m |-> RawTarget(SeedOrder[k])] : m \in 0..Len(SeedOrder)}

InitBuild ==
    /\ g = TargetGraph_new
    /\ last = NoCall
    /\ added = {}
    /\ \E desc \in Repositories :
          infers = [k \in 1..NumInfers |-> [n \in Names |-> Column(n, desc[n])[k]]]
    /\ start \in SeedLists
    /\ si = 1
    /\ stack = <<>>
    /\ our_targets = <<>>
    /\ pc = "run"
    /\ calls = {}
    /\ warned = {}

NextBuild ==
    \/ BuildGraphCall
    \/ BuildGraphFail
    \/ RecSkip
    \/ RecAddNode
    \/ RecParentCall
    \/ RecParentFailed
    \/ RecReturn
    \/ BuildGraphReturn
    \/ BuildGraphDone
    \/ GetChangeset

SpecBuild == InitBuild /\ [][NextBuild]_vars

\* every use the program makes of a TargetGraph: a caller of its API, or
\* the graph builder followed by the changeset query
SpecGraphUses == (InitGraph \/ InitBuild) /\ [][NextGraph \/ NextBuild]_vars

---------------------------------------------------------------------------
(* The pipeline alone: run_inf on one raw target, for every combination of *)
(* plugin answers.                                                         *)

FlavorOf(k) == IF k = 1 THEN CARGO_FLAVOR ELSE FLAVOR

SomeParents == {<<>>, <<RawTarget("b")>>}

\* what plugin k can produce for package n
Produced(k, n) ==
    {Nothing}
    \cup {One(Single(Target(n, FlavorOf(k)), ps, <<>>)) : ps \in SomeParents}
    \cup {Many(<<>>)}
    \cup {Many(<<Single(Target(n, FlavorOf(k)), ps, <<>>)>>) : ps \in SomeParents}
    \cup {Many(<<Single(Target(n, FLAVOR), ps, <<>>),
                 Single(Target(n, CARGO_FLAVOR), ps, <<>>)>>) : ps \in SomeParents}

Answers(k, n) ==
    {Err("manifest does not parse")}
    \cup {InferResult(t, w) : t \in Produced(k, n), w \in {Continue, Break}}

AllAnswers(n) == UNION {Answers(k, n) : k \in 1..NumInfers}

InitInfer ==
    /\ g = TargetGraph_new
    /\ last = NoCall
    /\ added = {}
    /\ \E col \in [1..NumInfers -> AllAnswers("a")] :
          /\ \A k \in 1..NumInfers : col[k] \in Answers(k, "a")
          /\ infers = [k \in 1..NumInfers |->
                          [n \in Names |-> IF n = "a" THEN col[k] ELSE Quiet[k]]]
    /\ start = <<>>
    /\ si = 1
    /\ stack = <<>>
    /\ our_targets = <<>>
    /\ pc = "infer"
    /\ calls = {}
    /\ warned = {}

RunInf ==
    /\ pc = "infer"
    /\ \E raw \in RawTargets :
          last' = [op |-> "run_inf", raw |-> raw, res |-> run_inf(raw),
                   run |-> raw_run_inferrers(raw)]
    /\ pc' = "inferred"
    /\ UNCHANGED <<g, added, infers, start, si, stack, our_targets, calls, warned>>

NextInfer == RunInf

SpecInfer == InitInfer /\ [][NextInfer]_vars

---------------------------------------------------------------------------
(* Vocabulary of the properties *)

Range(s) == {s[k] : k \in 1..Len(s)}

NoRepeat(s) == \A i \in 1..Len(s), j \in 1..Len(s) : i # j => s[i] # s[j]

\* the Targets that are nodes of gr
Nodes(gr) == {t \in DOMAIN gr.target_by_index : contains_node(gr, t)}

\* the edges of gr as (source Target, destination Target) pairs
EdgePairs(gr) ==
    {<<gr.index_by_target[gr.inner.edges[k][1]], gr.index_by_target[gr.inner.edges[k][2]]>> :
        k \in 1..Len(gr.inner.edges)}

HasEdge(gr, a, b) == <<a, b>> \in EdgePairs(gr)

\* the Targets reachable from S by following zero or more edges
RECURSIVE Reach(_, _)
Reach(gr, S) ==
    LET more == S \cup {e[2] : e \in {x \in EdgePairs(gr) : x[1] \in S}}
    IN  IF more = S THEN S ELSE Reach(gr, more)

\* what inference gives for package n
Inferred(n) == run_inf(RawTarget(n))

SinglesOf(n) == IF Inferred(n).ok THEN Range(Inferred(n).val) ELSE {}

TargetsOfPkg(n) == {s.target : s \in SinglesOf(n)}

\* the raw targets Target t declares as its parents
DeclaredParents(t) == UNION {Range(s.parents) : s \in {x \in SinglesOf(t.name) : x.target = t}}

\* the packages of C and every package that declares one of them, directly
\* or through a chain of declarations
RECURSIVE Dependents(_)
Dependents(C) ==
    LET more == C \cup {n \in Names : \E s \in SinglesOf(n) : \E p \in Range(s.parents) : p.name \in C}
    IN  IF more = C THEN C ELSE Dependents(more)

---------------------------------------------------------------------------
(* Properties *)

\* C1: after build_graph succeeds, for every Target T of the graph and every
\* declared parent P of T whose build succeeded, the graph has the edge from
\* each Target of P to T, and the reverse edge only if that Target of P
\* declares T's package as a parent.
C1_EdgesDependencyToDependent ==
    pc = "done" =>
        \A t \in Nodes(g) : \A p \in DeclaredParents(t) :
            Inferred(p.name).ok =>
                \A pt \in TargetsOfPkg(p.name) :
                    /\ HasEdge(g, pt, t)
                    /\ HasEdge(g, t, pt) => RawTarget(t.name) \in DeclaredParents(pt)

\* a finished build in which a Target has a two-flavored parent that does not
\* depend back on it, and another parent failed
C1_Witness ==
    /\ pc = "done"
    /\ warned # {}
    /\ \E t \in Nodes(g) : \E p \in DeclaredParents(t) :
          /\ Cardinality(TargetsOfPkg(p.name)) = 2
          /\ \A pt \in TargetsOfPkg(p.name) : HasEdge(g, pt, t) /\ ~HasEdge(g, t, pt)

\* C2: when every package infers successfully and the graph is built from
\* all packages, the changeset of the changed packages C is exactly the
\* Targets of C and of every package that depends on C directly or through
\* a chain of declarations. (Fails: a package whose inference succeeds with
\* an empty Many has no Target, and its dependents are not reported.)
C2_ChangesetIsDependents ==
    (pc = "answered" /\ SeedNames = Names /\ \A n \in Names : Inferred(n).ok) =>
        /\ last.res.ok
        /\ Range(last.res.val) = UNION {TargetsOfPkg(n) : n \in Dependents(last.to_search)}

\* The changeset is exact whenever every package infers to at least one
\* Target.
ChangesetIsDependentsOfTargets ==
    (\A n \in Names : TargetsOfPkg(n) # {}) => C2_ChangesetIsDependents

\* C3: for starts that are all nodes, rdeps returns exactly the nodes
\* reachable from a start over zero or more outgoing edges, each once.
C3_RdepsReachableOnce ==
    (last.op = "rdeps" /\ \A k \in 1..Len(last.targets) : contains_node(last.pre, last.targets[k])) =>
        /\ last.res.ok
        /\ Range(last.res.val) = Reach(last.pre, Range(last.targets))
        /\ NoRepeat(last.res.val)

\* two starts joined by an edge and a third node reached from them
C3_Witness ==
    /\ last.op = "rdeps"
    /\ Len(last.targets) = 2
    /\ last.res.ok
    /\ HasEdge(last.pre, last.targets[1], last.targets[2])
    /\ Cardinality(Range(last.res.val)) = 3

\* C4: rdeps fails, with no partial result, when some start is not a node.
C4_RdepsAbsentStartFails ==
    (last.op = "rdeps" /\ \E k \in 1..Len(last.targets) : ~contains_node(last.pre, last.targets[k])) =>
        /\ ~last.res.ok
        /\ "val" \notin DOMAIN last.res

\* a present start followed by an absent one
C4_Witness ==
    /\ last.op = "rdeps"
    /\ Len(last.targets) = 2
    /\ contains_node(last.pre, last.targets[1])
    /\ ~contains_node(last.pre, last.targets[2])
    /\ ~last.res.ok

\* C5: add_node of a Target already present changes nothing, the node count
\* is the number of distinct Targets added, and contains_node holds exactly
\* for them.
C5_AddNodeIdempotent ==
    pc \in {"api", "queried"} =>
        /\ (last.op = "add_node" /\ contains_node(last.pre, last.node)) => g = last.pre
        /\ g.inner.node_count = Cardinality(added)
        /\ \A t \in GraphTargets : contains_node(g, t) <=> t \in added

\* a repeated add_node on a graph that already has edges
C5_Witness ==
    /\ last.op = "add_node"
    /\ contains_node(last.pre, last.node)
    /\ Len(last.pre.inner.edges) > 0
    /\ Cardinality(added) >= 2

\* C6: add_edge of an edge already present succeeds and changes nothing, so
\* no two edges join the same ordered pair of nodes.
C6_AddEdgeIdempotent ==
    pc \in {"api", "queried"} =>
        /\ (last.op = "add_edge" /\ HasEdge(last.pre, last.src, last.dest)) =>
              last.res.ok /\ g = last.pre
        /\ NoRepeat(g.inner.edges)

\* a repeated add_edge
C6_Witness ==
    /\ last.op = "add_edge"
    /\ HasEdge(last.pre, last.src, last.dest)
    /\ last.res.ok
    /\ Len(g.inner.edges) = 2

\* C7: add_edge fails and leaves the graph as it was when src or dest is
\* not a node.
C7_AddEdgeMissingEndpoint ==
    (last.op = "add_edge"
        /\ (~contains_node(last.pre, last.src) \/ ~contains_node(last.pre, last.dest))) =>
        /\ ~last.res.ok
        /\ g = last.pre

\* add_edge from a node to a Target that is not a node
C7_Witness ==
    /\ last.op = "add_edge"
    /\ contains_node(last.pre, last.src)
    /\ ~contains_node(last.pre, last.dest)
    /\ ~last.res.ok

\* C8: every add_edge call the builder issues has both endpoints present,
\* and the builder never reaches its "unexpected corruption" panic.
C8_BuilderEdgesBetweenNodes ==
    /\ pc # "panic"
    /\ \A c \in calls : c.src_in /\ c.dest_in

\* a finished build with a declaration cycle between two packages, a failed
\* parent, and edges added
C8_Witness ==
    /\ pc = "done"
    /\ warned # {}
    /\ \E c1 \in calls, c2 \in calls :
          c1.src = c2.dest /\ c1.dest = c2.src /\ c1.src # c1.dest

\* C9: the plugins are invoked in list order, none after the first plugin
\* that signals Break (or fails), whatever that plugin produced, and the loop
\* does not stop before that.
C9_NoPluginAfterBreak ==
    last.op = "run_inf" =>
        LET called == last.run.called
        IN  /\ \A i \in 1..Len(called) : called[i] = i
            /\ \A i \in 1..(Len(called) - 1) :
                  /\ from_raw_target(i, last.raw).ok
                  /\ from_raw_target(i, last.raw).what_next = Continue
            /\ Len(called) < NumInfers =>
                  /\ Len(called) >= 1
                  /\ \/ ~from_raw_target(Len(called), last.raw).ok
                     \/ from_raw_target(Len(called), last.raw).what_next = Break

\* the first plugin returns Nothing with Break and the second, which would
\* have matched, is not invoked
C9_Witness ==
    /\ last.op = "run_inf"
    /\ from_raw_target(1, last.raw) = InferResult(Nothing, Break)
    /\ from_raw_target(2, last.raw).ok
    /\ from_raw_target(2, last.raw).inferred_target.kind = "One"
    /\ last.run.called = <<1>>

\* C10: when the loop ends with no non-Nothing result, run_inf fails with
\* the absence error and returns no Targets.
C10_AbsenceError ==
    (last.op = "run_inf"
        /\ \A i \in 1..Len(last.run.called) :
              /\ from_raw_target(i, last.raw).ok
              /\ from_raw_target(i, last.raw).inferred_target = Nothing) =>
        last.res = Err("could not infer any target")

\* the only plugin that would match is cut off by an earlier Break
C10_Witness ==
    /\ last.op = "run_inf"
    /\ last.run.called = <<1>>
    /\ from_raw_target(1, last.raw) = InferResult(Nothing, Break)
    /\ from_raw_target(2, last.raw).ok
    /\ from_raw_target(2, last.raw).inferred_target.kind = "Many"
    /\ ~last.res.ok

\* the plugins that were invoked for last.raw and produced a non-Nothing result
Producers ==
    {i \in Range(last.run.called) :
        from_raw_target(i, last.raw).ok /\ from_raw_target(i, last.raw).inferred_target # Nothing}

AmbiguityError == Err("multiple build systems were inferred")

\* C11 as stated: when two or more invoked plugins produce a non-Nothing
\* result, run_inf fails with the ambiguity error.
C11_AmbiguityError ==
    (last.op = "run_inf" /\ Cardinality(Producers) >= 2) => last.res = AmbiguityError

\* C11, amended: when two or more invoked plugins produce a non-Nothing
\* result, run_inf fails and returns no Targets; the failure is the ambiguity
\* error when no invoked plugin fails, and the error of the failing plugin
\* otherwise, whether the results are One or Many.
C11_AmbiguityUnlessPluginFails ==
    (last.op = "run_inf" /\ Cardinality(Producers) >= 2) =>
        /\ ~last.res.ok
        /\ last.run.res.ok => last.res = AmbiguityError
        /\ ~last.run.res.ok => last.res = last.run.res

\* a One and a Many for the same raw target, the Many ending the loop
C11_Witness ==
    /\ last.op = "run_inf"
    /\ last.run.called = <<1, 2>>
    /\ from_raw_target(1, last.raw).ok
    /\ from_raw_target(1, last.raw).inferred_target.kind = "One"
    /\ from_raw_target(2, last.raw).ok
    /\ from_raw_target(2, last.raw).inferred_target.kind = "Many"
    /\ from_raw_target(2, last.raw).what_next = Break
    /\ last.res = AmbiguityError

\* what run_inf returns for the one non-Nothing result t
Delivered(t) == IF t.kind = "One" THEN Ok(<<t.single>>) ELSE Ok(t.many)

\* C12 as stated: when exactly one invoked plugin produces a non-Nothing
\* result, run_inf succeeds with the Target of One or every Target of Many.
C12_SingleResultSucceeds ==
    (last.op = "run_inf" /\ Cardinality(Producers) = 1) =>
        \A k \in Producers : last.res = Delivered(from_raw_target(k, last.raw).inferred_target)

\* C12, amended: when exactly one invoked plugin produces a non-Nothing
\* result and no invoked plugin fails, run_inf succeeds with the Target (and
\* parents) of One or every Target of Many, in order; when an invoked plugin
\* fails run_inf fails with that plugin's error; in neither case is the
\* ambiguity error reported.
C12_SingleResultUnlessPluginFails ==
    (last.op = "run_inf" /\ Cardinality(Producers) = 1) =>
        /\ last.res # AmbiguityError
        /\ last.run.res.ok =>
              \A k \in Producers :
                  last.res = Delivered(from_raw_target(k, last.raw).inferred_target)
        /\ ~last.run.res.ok => last.res = last.run.res

\* the second plugin alone answers, with a Many of two flavors that declare
\* a parent, and run_inf returns both
C12_Witness ==
    /\ last.op = "run_inf"
    /\ Producers = {2}
    /\ last.run.res.ok
    /\ from_raw_target(2, last.raw).inferred_target.kind = "Many"
    /\ last.res.ok
    /\ Len(last.res.val) = 2
    /\ last.res.val[1].target # last.res.val[2].target
    /\ last.res.val[2].parents # <<>>

\* the packages build_graph_rec has put a Target of into gr
Built(gr) == {t.name : t \in Nodes(gr)}

\* the edges into t whose source is a Target of one of t's declared parents
ParentEdges(gr, t) ==
    {e \in EdgePairs(gr) : e[2] = t /\ RawTarget(e[1].name) \in DeclaredParents(t)}

\* C13: after build_graph succeeds, every flavor of a built package that
\* infers to several Targets sharing their declared parents is a node of its
\* own, and each of them has an edge from every Target of every parent whose
\* inference succeeded: the later flavors have the same parent edges as the
\* first.
C13_FlavorsShareParentEdges ==
    pc = "done" =>
        \A n \in Built(g) :
            Cardinality(TargetsOfPkg(n)) >= 2 =>
                /\ TargetsOfPkg(n) \subseteq Nodes(g)
                /\ \A t \in TargetsOfPkg(n), u \in TargetsOfPkg(n) :
                      t # u => g.target_by_index[t] # g.target_by_index[u]
                /\ \A t \in TargetsOfPkg(n) : \A p \in DeclaredParents(t) :
                      Inferred(p.name).ok =>
                          \A pt \in TargetsOfPkg(p.name) : HasEdge(g, pt, t)
                /\ \A t \in TargetsOfPkg(n), u \in TargetsOfPkg(n) :
                      {e[1] : e \in ParentEdges(g, t)} = {e[1] : e \in ParentEdges(g, u)}

\* a finished build where a two-flavored package declares a two-flavored
\* parent: four edges, the parent's Targets being in the graph already when
\* the second flavor is reached
C13_Witness ==
    /\ pc = "done"
    /\ \E n \in Built(g), p \in Built(g) :
          /\ n # p
          /\ Cardinality(TargetsOfPkg(n)) = 2
          /\ Cardinality(TargetsOfPkg(p)) = 2
          /\ \A t \in TargetsOfPkg(n) :
                /\ DeclaredParents(t) = {RawTarget(p)}
                /\ {e[1] : e \in ParentEdges(g, t)} = TargetsOfPkg(p)

\* the positions of the seeds whose inference fails
FailingSeeds == {k \in 1..Len(start) : ~Inferred(start[k].name).ok}

\* C14: when inference fails for a seed, build_graph never returns a graph
\* and seed targets: it runs until it reaches the first such seed and then
\* returns the error, leaving the seeds after it untouched, wherever that
\* seed is in the list and whatever the other seeds are.
C14_SeedFailureAborts ==
    /\ [](FailingSeeds # {} =>
            /\ pc \in {"run", "failed"}
            /\ \A k \in FailingSeeds : si <= k
            /\ pc = "failed" => (si \in FailingSeeds /\ stack = <<>>))
    /\ [][(pc = "run" /\ stack = <<>> /\ si \in FailingSeeds) => pc' = "failed"]_vars

\* build_graph has failed on its third seed, after the first two seeds were
\* built and linked
C14_Witness ==
    /\ pc = "failed"
    /\ si = 3
    /\ Len(our_targets) >= 2
    /\ EdgePairs(g) # {}

\* C15: a failure of the recursive build of a declared parent P of Target T
\* is not a failure of the call for T. T is and stays a node, no edge from a
\* Target of P into T is added, the build fails only on a failing seed, and
\* when it is done every failed parent has been passed over with a warning,
\* every other parent of T is linked to T and every seed's Targets are nodes.
C15_ParentFailureIsWarning ==
    /\ \A w \in warned :
          /\ ~Inferred(w.package).ok
          /\ contains_node(g, w.of)
          /\ \A e \in EdgePairs(g) : ~(e[2] = w.of /\ e[1].name = w.package)
    /\ pc = "failed" => FailingSeeds # {}
    /\ pc # "panic"
    /\ pc = "done" =>
          /\ \A t \in Nodes(g) : \A p \in DeclaredParents(t) :
                IF Inferred(p.name).ok
                THEN \A pt \in TargetsOfPkg(p.name) : HasEdge(g, pt, t)
                ELSE [package |-> p.name, of |-> t] \in warned
          /\ \A k \in 1..Len(start) : TargetsOfPkg(start[k].name) \subseteq Nodes(g)

\* a finished build of two seeds in which the first parent of a Target
\* failed, its second parent was built and linked, and the seed after it was
\* built
C15_Witness ==
    /\ pc = "done"
    /\ Len(start) = 2
    /\ \E w \in warned : \E s \in SinglesOf(w.of.name) :
          /\ s.target = w.of
          /\ Len(s.parents) = 2
          /\ s.parents[1].name = w.package
          /\ Inferred(s.parents[2].name).ok
          /\ \E pt \in TargetsOfPkg(s.parents[2].name) : HasEdge(g, pt, w.of)
          /\ w.of.name = start[1].name

\* the packages inference has been run for: the seeds reached so far, the
\* packages of the nodes and the parents that failed
Consulted ==
    {start[k].name : k \in 1..(IF si <= Len(start) THEN si ELSE Len(start))}
    \cup Built(g) \cup {w.package : w \in warned}

Ambiguous(n) == Inferred(n) = AmbiguityError

\* C16 as stated: build_graph returns no graph when a package it ran
\* inference for, seed or declared parent, is claimed by more than one plugin.
C16_AmbiguityIsFatal ==
    pc = "done" => \A n \in Consulted : ~Ambiguous(n)

\* C16, amended: an ambiguous seed is fatal, build_graph returning the error
\* when it reaches that seed; an ambiguous package reached as a declared
\* parent is passed over with a warning, has no node, and build_graph fails
\* only if some seed fails.
C16_AmbiguityFatalForSeedsOnly ==
    /\ pc = "done" => \A k \in 1..Len(start) : ~Ambiguous(start[k].name)
    /\ (pc = "run" /\ stack = <<>> /\ si <= Len(start) /\ Ambiguous(start[si].name)) =>
          (ENABLED BuildGraphFail /\ ~ENABLED BuildGraphCall)
    /\ \A n \in Names : Ambiguous(n) => n \notin Built(g)
    /\ pc = "failed" => ~Inferred(start[si].name).ok
    /\ pc = "done" =>
          \A t \in Nodes(g) : \A p \in DeclaredParents(t) :
              Ambiguous(p.name) => [package |-> p.name, of |-> t] \in warned

\* build_graph has returned a graph although a declared parent was claimed
\* by two plugins
C16_Witness ==
    /\ pc = "done"
    /\ \E w \in warned : Ambiguous(w.package) /\ contains_node(g, w.of)

\* the `for our` loop of the innermost call is at a Target that is a node
AtPresentTarget ==
    /\ pc = "run"
    /\ stack # <<>>
    /\ Top.j = 0
    /\ Top.i <= Len(Top.ours)
    /\ contains_node(g, Top.ours[Top.i].target)

\* the innermost call has finished its `for our` loop
AtReturn == pc = "run" /\ stack # <<>> /\ Top.j = 0 /\ Top.i > Len(Top.ours)

\* C17: at a produced Target that is already a node, build_graph_rec goes to
\* its next Target and does nothing else (no node, no recursive call, no
\* edge); the list a call returns is everything run_inf produced for its raw
\* target, the skipped Targets included: each is linked to the caller's
\* Target, or appended to the seed targets.
C17_SkipDoesNothingButReturns ==
    /\ [][AtPresentTarget =>
            /\ g' = g
            /\ calls' = calls
            /\ stack' = SetTop([Top EXCEPT !.i = @ + 1])
            /\ UNCHANGED <<added, our_targets, warned, si, pc>>]_vars
    /\ [](\A d \in 1..Len(stack) : stack[d].ours = run_inf(stack[d].raw).val)
    /\ [][(AtReturn /\ Len(stack) >= 2) =>
            \A s \in Range(run_inf(Top.raw).val) :
                HasEdge(g', s.target, stack[Len(stack) - 1].ours[stack[Len(stack) - 1].i].target)]_vars
    /\ [][(AtReturn /\ Len(stack) = 1) =>
            our_targets' = our_targets \o targets_of(run_inf(Top.raw).val)]_vars

\* a finished build from the one seed a in which a declares b and b declares
\* a: the call for a made from b found a present, skipped it and returned it,
\* which is where the edge from a to b comes from
C17_Witness ==
    /\ pc = "done"
    /\ start = <<RawTarget("a")>>
    /\ \E ta \in TargetsOfPkg("a"), tb \in TargetsOfPkg("b") :
          /\ RawTarget("b") \in DeclaredParents(ta)
          /\ RawTarget("a") \in DeclaredParents(tb)
          /\ HasEdge(g, ta, tb)
          /\ g.inner.node_count = 2

\* a call on the stack is inside the parent loop of Target t
InProgress(t) ==
    \E d \in 1..Len(stack) : stack[d].j >= 1 /\ stack[d].ours[stack[d].i].target = t

\* every declared parent of t has been dealt with: its Targets are linked to
\* t, or its failure has been warned about
Linked(t) ==
    \A p \in DeclaredParents(t) :
        IF Inferred(p.name).ok
        THEN \A pt \in TargetsOfPkg(p.name) : HasEdge(g, pt, t)
        ELSE [package |-> p.name, of |-> t] \in warned

FullyProcessed(t) == ~InProgress(t) /\ Linked(t)

\* C18 as stated: a Target the builder skips because it is a node has been
\* fully processed.
C18_SkippedIsProcessed ==
    AtPresentTarget => FullyProcessed(Top.ours[Top.i].target)

\* C18, amended: a Target the builder skips because it is a node either has
\* been fully processed or is the Target of an enclosing call that is still
\* walking its parents (a declaration cycle, a package declaring itself);
\* every node that no call is working on has been fully processed, and so
\* has every node when build_graph returns.
C18_SkippedIsProcessedOrInProgress ==
    /\ AtPresentTarget =>
          (FullyProcessed(Top.ours[Top.i].target) \/ InProgress(Top.ours[Top.i].target))
    /\ pc \in {"run", "done"} =>
          \A t \in Nodes(g) : FullyProcessed(t) \/ (pc = "run" /\ InProgress(t))

\* the call for a made from its parent b, which declares a back, skips a
\* while the outer call for a has not linked b to a yet
C18_Witness ==
    /\ AtPresentTarget
    /\ InProgress(Top.ours[Top.i].target)
    /\ ~Linked(Top.ours[Top.i].target)
    /\ Len(stack) = 3

\* C19 as stated: while the parents of a Target are being walked the Target
\* is not yet a node.
C19_NodeAfterParents ==
    \A t \in Targets : InProgress(t) => ~contains_node(g, t)

\* C19, amended: a Target becomes a node before the recursion into its
\* declared parents begins (the step that makes it present is the add_node
\* of the innermost call, made ahead of its parent loop, when no edge leads
\* into the Target), and it is a node all the while its parents are walked.
C19_NodeBeforeParents ==
    /\ [](\A t \in Targets : InProgress(t) => contains_node(g, t))
    /\ [][\A t \in Targets :
            (~contains_node(g, t) /\ contains_node(g', t)) =>
                /\ pc = "run" /\ stack # <<>>
                /\ Top.j = 0
                /\ Top.i <= Len(Top.ours)
                /\ Top.ours[Top.i].target = t
                /\ ~InProgress(t)
                /\ \A e \in EdgePairs(g') : e[2] # t
                /\ Len(stack') = Len(stack)
                /\ stack'[Len(stack)].j = (IF Len(Top.ours[Top.i].parents) = 0 THEN 0 ELSE 1)]_vars

\* a Target is a node without incoming edges while the call made for its
\* first declared parent is running
C19_Witness ==
    /\ pc = "run"
    /\ Len(stack) = 2
    /\ stack[1].j = 1
    /\ contains_node(g, stack[1].ours[stack[1].i].target)
    /\ \A e \in EdgePairs(g) : e[2] # stack[1].ours[stack[1].i].target
    /\ Top.i <= Len(Top.ours)
    /\ ~contains_node(g, Top.ours[Top.i].target)

\* packages A and B declare each other and inference succeeds for both
Cyclic(A, B) ==
    /\ A # B
    /\ \E ta \in TargetsOfPkg(A) : RawTarget(B) \in DeclaredParents(ta)
    /\ \E tb \in TargetsOfPkg(B) : RawTarget(A) \in DeclaredParents(tb)

\* the first seed is on a declaration cycle of two packages
CycleAtFirstSeed == Len(start) >= 1 /\ \E B \in Names : Cyclic(start[1].name, B)

\* C20 as stated: with a declaration cycle at the first seed build_graph
\* never returns, neither a graph nor an error.
C20_CycleNeverTerminates ==
    CycleAtFirstSeed => pc = "run"

\* the steps a call on raw target p takes when every Target it produces is
\* a node: the call, one skip per Target and the return, or the failed call
CallCost(p) == IF Inferred(p.name).ok THEN Len(Inferred(p.name).val) + 2 ELSE 1

RECURSIVE CallCosts(_, _)
CallCosts(ps, from) == IF from > Len(ps) THEN 0 ELSE CallCost(ps[from]) + CallCosts(ps, from + 1)

\* the steps left to the call at depth d if no node is added any more
FrameRest(d) ==
    LET f == stack[d]
    IN  IF f.j = 0 THEN (Len(f.ours) - f.i + 1) + 1
        ELSE (Len(f.ours) - f.i) + 1
             + CallCosts(f.ours[f.i].parents, IF d = Len(stack) THEN f.j ELSE f.j + 1)

RECURSIVE StackRest(_)
StackRest(d) == IF d = 0 THEN 0 ELSE FrameRest(d) + StackRest(d - 1)

\* more than the steps a run takes between two add_node calls
RestBound ==
    (Cardinality(Targets) + 2)
        * (Cardinality(Flavors) + 2 + MaxParents * (Cardinality(Flavors) + 2))

\* a number that every step of the builder decreases: the seeds left, then
\* the Targets that are not nodes yet, then the steps left without add_node
Measure ==
    IF pc = "done" THEN 1
    ELSE IF pc # "run" THEN 0
    ELSE 2 + (Len(start) + 1 - si) * (Cardinality(Targets) + 1) * RestBound
           + Cardinality(Targets \ Nodes(g)) * RestBound
           + StackRest(Len(stack))
           + (IF stack = <<>> /\ si <= Len(start) THEN CallCost(start[si]) + 1 ELSE 0)

\* the guard of one of the builder's actions holds: between seeds
\* (BuildGraphCall, BuildGraphFail or BuildGraphDone), at a position of the
\* `for our` loop or past its end (RecSkip, RecAddNode, RecReturn or
\* BuildGraphReturn), or at a declared parent (RecParentCall or RecParentFailed)
HasNextStep ==
    \/ stack = <<>> /\ si >= 1
    \/ /\ stack # <<>>
       /\ Top.j = 0
       /\ Top.i \in 1..(Len(Top.ours) + 1)
    \/ /\ stack # <<>>
       /\ Top.i \in 1..Len(Top.ours)
       /\ Top.j \in 1..Len(Top.ours[Top.i].parents)

\* C20, amended: build_graph terminates, declaration cycles included: a
\* running build always has a next step, every step decreases a natural
\* number, the recursion never nests deeper than one call per Target and one
\* more, and with a cycle at the first seed the graph that is returned has
\* the edges of the cycle in both directions.
C20_CycleTerminates ==
    /\ [][Measure' < Measure]_vars
    /\ [](Measure \in Nat /\ StackRest(Len(stack)) < RestBound)
    /\ [](pc = "run" => HasNextStep)
    /\ [](Len(stack) <= Cardinality(Targets) + 1)
    /\ []((pc = "done" /\ CycleAtFirstSeed) =>
            \A B \in Names : Cyclic(start[1].name, B) =>
                /\ \A ta \in TargetsOfPkg(start[1].name), tb \in TargetsOfPkg(B) :
                      /\ RawTarget(B) \in DeclaredParents(ta) => HasEdge(g, tb, ta)
                      /\ RawTarget(start[1].name) \in DeclaredParents(tb) => HasEdge(g, ta, tb))

\* build_graph has returned the graph of a two-package cycle: both packages
\* are nodes and each has an edge to the other
C20_Witness ==
    /\ pc = "done"
    /\ CycleAtFirstSeed
    /\ \E B \in Names : Cyclic(start[1].name, B) /\
          \E ta \in TargetsOfPkg(start[1].name), tb \in TargetsOfPkg(B) :
              HasEdge(g, ta, tb) /\ HasEdge(g, tb, ta)

\* the packages that package n declares as parents
DeclaresPkgs(n) == {p.name : p \in UNION {Range(x.parents) : x \in SinglesOf(n)}}

\* the packages reached from the packages S through one or more declarations
RECURSIVE DeclaredBelow(_)
DeclaredBelow(S) ==
    LET more == S \cup UNION {DeclaresPkgs(n) : n \in S}
    IN  IF more = S THEN S ELSE DeclaredBelow(more)

\* no package reaches itself through parent declarations
Acyclic == \A n \in Names : n \notin DeclaredBelow(DeclaresPkgs(n))

Max(S) == CHOOSE x \in S : \A y \in S : y <= x

\* the number of packages on the longest chain of declarations that starts
\* at package n (for acyclic declarations)
RECURSIVE ChainFrom(_)
ChainFrom(n) == 1 + Max({0} \cup {ChainFrom(m) : m \in DeclaresPkgs(n)})

LongestSeedChain == Max({0} \cup {ChainFrom(start[k].name) : k \in 1..Len(start)})

\* the innermost call is about to call build_graph_rec on a parent whose
\* inference fails: that call is entered and returns at once
AtFailingParent ==
    /\ pc = "run"
    /\ stack # <<>>
    /\ Top.j >= 1
    /\ ~run_inf(Top.ours[Top.i].parents[Top.j]).ok

\* C21: when the parent declarations are acyclic, build_graph terminates (a
\* running build has a next step and every step decreases a natural number)
\* and the nested build_graph_rec calls, the call that fails at once on a
\* parent included, are never more than the packages on the longest chain of
\* declarations starting at a seed.
C21_AcyclicDepthBound ==
    /\ []((Len(stack) >= 1 /\ Acyclic) =>
            /\ Len(stack) <= LongestSeedChain
            /\ AtFailingParent => Len(stack) + 1 <= LongestSeedChain)
    /\ []((pc = "run" /\ Acyclic) => HasNextStep)
    /\ [][Acyclic => Measure' < Measure]_vars

\* the innermost of three nested calls on the chain a, b, c of acyclic
\* declarations
C21_Witness ==
    /\ pc = "run"
    /\ Len(stack) = 3
    /\ Acyclic
    /\ LongestSeedChain = 3
    /\ stack[1].raw # stack[2].raw /\ stack[2].raw # stack[3].raw /\ stack[1].raw # stack[3].raw

\* C22: no step of the builder and no TargetGraph operation removes a node
\* or an edge or gives a node another index: across every step the node set
\* and the edge set only grow, and the queries leave the graph as it is.
C22_GraphOnlyGrows ==
    [][/\ Nodes(g) \subseteq Nodes(g')
       /\ EdgePairs(g) \subseteq EdgePairs(g')
       /\ \A t \in Nodes(g) : g'.target_by_index[t] = g.target_by_index[t]
       /\ last'.op \in {"contains_node", "neighbors", "rdeps"} => g' = g]_vars

\* a graph with two nodes and two edges that has then been queried by
\* rdeps, and is still the graph the query was made on
C22_Witness ==
    /\ last.op = "rdeps"
    /\ last.res.ok
    /\ g = last.pre
    /\ Cardinality(Nodes(g)) >= 2
    /\ Cardinality(EdgePairs(g)) >= 2

---------------------------------------------------------------------------
(* Strings: a Rust String or path is the sequence of its characters *)

MaxPathLen == 6
MaxNameLen == 3

PathChars == {"a", ".", "/"}

Strings(n) == SeqsUpTo(PathChars, n)

Last(s) == s[Len(s)]

\* str::split('/'): the pieces between the separators, empty pieces included
RECURSIVE split_from(_, _, _)
split_from(s, i, piece) ==
    IF i > Len(s) THEN <<piece>>
    ELSE IF s[i] = "/" THEN <<piece>> \o split_from(s, i + 1, <<>>)
    ELSE split_from(s, i + 1, Append(piece, s[i]))

split(s) == split_from(s, 1, <<>>)

---------------------------------------------------------------------------
(* types.rs: TargetName *)

\* TargetName::validate without the empty-component check
TargetName_validate_lenient(name) ==
    IF name = <<>> THEN Err("target name cannot be empty")
    ELSE IF name[1] = "/" THEN Err("target name cannot be absolute path")
    ELSE IF \E i \in 1..Len(split(name)) : split(name)[i] \in {<<".">>, <<".", ".">>}
         THEN Err("'.' and '..' not allowed in target name")
    ELSE Ok(name)

\* TargetName::validate; the component loop stops at the first offending
\* component, and both kinds of offence give an error
TargetName_validate(name) ==
    IF name = <<>> THEN Err("target name cannot be empty")
    ELSE IF name[1] = "/" THEN Err("target name cannot be absolute path")
    ELSE LET cs == split(name)
             bad == {i \in 1..Len(cs) : cs[i] = <<>> \/ cs[i] \in {<<".">>, <<".", ".">>}}
         IN  IF bad = {} THEN Ok(name)
             ELSE LET i == CHOOSE j \in bad : \A k \in bad : j <= k
                  IN  IF cs[i] = <<>>
                      THEN Err("detected target name with multiple slashes")
                      ELSE Err("'.' and '..' not allowed in target name")

TargetName_new(name) ==
    LET v == TargetName_validate(name)
    IN  IF v.ok THEN Ok(name) ELSE v

from_string_name(name) ==
    LET n == TargetName_new(name)
    IN  IF n.ok THEN Ok(RawTarget(n.val)) ELSE n

TargetNames(n) == {s \in Strings(n) : TargetName_new(s).ok}

---------------------------------------------------------------------------
(* paths.rs and std::path on a posix host *)

RootDir == [kind |-> "RootDir", s |-> <<"/">>]
CurDir == [kind |-> "CurDir", s |-> <<".">>]
ParentDir == [kind |-> "ParentDir", s |-> <<".", ".">>]
Normal(c) == [kind |-> "Normal", s |-> c]

is_absolute(path) == path # <<>> /\ path[1] = "/"

\* Path::components: repeated and trailing separators vanish, and so does
\* every "." but one that leads a relative path
RECURSIVE components_of(_, _, _)
components_of(pieces, i, leading) ==
    IF i > Len(pieces) THEN <<>>
    ELSE LET p == pieces[i]
             rest == components_of(pieces, i + 1, FALSE)
         IN  IF p = <<>> THEN components_of(pieces, i + 1, leading)
             ELSE IF p = <<".">> THEN (IF leading THEN <<CurDir>> \o rest ELSE rest)
             ELSE IF p = <<".", ".">> THEN <<ParentDir>> \o rest
             ELSE <<Normal(p)>> \o rest

components(path) ==
    IF is_absolute(path)
    THEN <<RootDir>> \o components_of(split(path), 1, FALSE)
    ELSE components_of(split(path), 1, TRUE)

\* PathBuf::push of one component, or of a whole path (join)
push(buf, path) ==
    IF is_absolute(path) THEN path
    ELSE IF buf = <<>> THEN path
    ELSE IF Last(buf) = "/" THEN buf \o path
    ELSE buf \o <<"/">> \o path

join(base, path) == push(base, path)

\* the length of what precedes the body of a path: its root, or the "." that
\* leads a relative path
len_before_body(path) ==
    IF is_absolute(path) THEN 1
    ELSE IF path = <<".">> \/ (Len(path) >= 2 /\ path[1] = "." /\ path[2] = "/") THEN 1
    ELSE 0

\* where the last piece of s starts: after its last separator
last_piece_start(s) ==
    IF \E i \in 1..Len(s) : s[i] = "/"
    THEN 1 + CHOOSE i \in 1..Len(s) : s[i] = "/" /\ \A j \in i + 1..Len(s) : s[j] # "/"
    ELSE 1

\* Components::as_path after next_back: trailing separators and "." pieces,
\* which are no components, are cut off, down to the root or the leading "."
RECURSIVE trim_right(_, _)
trim_right(s, keep) ==
    IF Len(s) <= keep THEN s
    ELSE IF Last(s) = "/" THEN trim_right(SubSeq(s, 1, Len(s) - 1), keep)
    ELSE IF SubSeq(s, last_piece_start(s), Len(s)) = <<".">>
         THEN trim_right(SubSeq(s, 1, Len(s) - 1), keep)
    ELSE s

\* Path::parent: None for a path that ends in the root and for the empty
\* path, else the path without its last component, spelled as it was
parent_of_trimmed(t, keep) ==
    IF Len(t) <= keep
    THEN IF t = <<".">> THEN Some(<<>>) ELSE None
    ELSE Some(trim_right(SubSeq(t, 1, last_piece_start(t) - 1), keep))

parent(buf) == parent_of_trimmed(trim_right(buf, len_before_body(buf)), len_before_body(buf))

\* PathBuf::pop: truncate to the parent, if there is one
pop(buf) == IF parent(buf).some THEN parent(buf).val ELSE buf

\* normalize_path that lets ".." at the top pass
RECURSIVE normalize_from_clamping(_, _, _)
normalize_from_clamping(cs, i, ret) ==
    IF i > Len(cs) THEN Ok(ret)
    ELSE IF cs[i].kind = "RootDir" THEN normalize_from_clamping(cs, i + 1, push(ret, cs[i].s))
    ELSE IF cs[i].kind = "CurDir" THEN normalize_from_clamping(cs, i + 1, ret)
    ELSE IF cs[i].kind = "ParentDir" THEN normalize_from_clamping(cs, i + 1, pop(ret))
    ELSE normalize_from_clamping(cs, i + 1, push(ret, cs[i].s))

normalize_path_clamping(path) == normalize_from_clamping(components(path), 1, <<>>)

RECURSIVE normalize_from(_, _, _)
normalize_from(cs, i, ret) ==
    IF i > Len(cs) THEN Ok(ret)
    ELSE IF cs[i].kind = "RootDir" THEN normalize_from(cs, i + 1, push(ret, cs[i].s))
    ELSE IF cs[i].kind = "CurDir" THEN normalize_from(cs, i + 1, ret)
    ELSE IF cs[i].kind = "ParentDir"
         THEN IF ~parent(ret).some
              THEN Err("failed in normalizing path")
              ELSE normalize_from(cs, i + 1, pop(ret))
    ELSE normalize_from(cs, i + 1, push(ret, cs[i].s))

normalize_path(path) == normalize_from(components(path), 1, <<>>)

\* BuildSystemPath::get_host_path on a posix host, and target_name_to_path
get_host_path(raw) == raw

target_name_to_path(name) == name

\* resolve_rel_path that hands back whatever normalize_path produced
resolve_rel_path_unvalidated(rel_path, rel_to) ==
    LET path == join(target_name_to_path(rel_to.name), get_host_path(rel_path))
        norm == normalize_path(path)
    IN  IF ~norm.ok THEN norm ELSE Ok(RawTarget(norm.val))

\* Repository::resolve_rel_path
resolve_rel_path(rel_path, rel_to) ==
    LET path == join(target_name_to_path(rel_to.name), get_host_path(rel_path))
        norm == normalize_path(path)
    IN  IF ~norm.ok THEN norm ELSE from_string_name(norm.val)

---------------------------------------------------------------------------
(* The path functions alone: one string and one declaring raw target,      *)
(* handed to TargetName::new, normalize_path and resolve_rel_path.         *)

InitPaths ==
    /\ g = TargetGraph_new
    /\ added = {}
    /\ infers = <<>>
    /\ start = <<>>
    /\ si = 1
    /\ stack = <<>>
    /\ our_targets = <<>>
    /\ pc = "paths"
    /\ calls = {}
    /\ warned = {}
    /\ \E s \in Strings(MaxPathLen), d \in TargetNames(MaxNameLen) :
          last = [op |-> "none", path |-> s, rel_to |-> RawTarget(d)]

CallTargetNameNew ==
    /\ pc = "paths"
    /\ last' = [op |-> "TargetName::new", name |-> last.path,
                res |-> TargetName_new(last.path)]
    /\ pc' = "returned"
    /\ UNCHANGED <<g, added, builderVars>>

CallNormalizePath ==
    /\ pc = "paths"
    /\ last' = [op |-> "normalize_path", path |-> last.path,
                res |-> normalize_path(last.path)]
    /\ pc' = "returned"
    /\ UNCHANGED <<g, added, builderVars>>

CallResolveRelPath ==
    /\ pc = "paths"
    /\ last' = [op |-> "resolve_rel_path", rel_path |-> last.path, rel_to |-> last.rel_to,
                res |-> resolve_rel_path(last.path, last.rel_to)]
    /\ pc' = "returned"
    /\ UNCHANGED <<g, added, builderVars>>

NextPaths ==
    \/ CallTargetNameNew
    \/ CallNormalizePath
    \/ CallResolveRelPath

SpecPaths == InitPaths /\ [][NextPaths]_vars

---------------------------------------------------------------------------
(* Vocabulary of the path properties *)

\* the pieces of s between separators, by position: s[i..j] is a piece when
\* it holds no separator and is bounded by separators or the ends of s
Pieces(s) ==
    {<<i, j>> \in (1..Len(s) + 1) \X (0..Len(s)) :
        /\ j >= i - 1
        /\ \A k \in i..j : s[k] # "/"
        /\ (i = 1 \/ s[i - 1] = "/")
        /\ (j = Len(s) \/ s[j + 1] = "/")}

Piece(s, p) == SubSeq(s, p[1], p[2])

WellFormedName(s) ==
    /\ s # <<>>
    /\ s[1] # "/"
    /\ \A p \in Pieces(s) : Piece(s, p) \notin {<<>>, <<".">>, <<".", ".">>}

\* C23: TargetName::new(s) succeeds, with the name s, exactly when s is not
\* empty, does not start with '/', and none of its pieces between '/' is
\* empty, "." or ".." (so a trailing '/' is rejected); otherwise it is an
\* error and no name is constructed.
C23_NameValidation ==
    last.op = "TargetName::new" =>
        /\ last.res.ok <=> WellFormedName(last.name)
        /\ last.res.ok => last.res.val = last.name
        /\ ~last.res.ok => (~last.res.panic /\ DOMAIN last.res = {"ok", "panic", "err"})
        /\ (last.name # <<>> /\ Last(last.name) = "/") => ~last.res.ok

C23_Witness ==
    /\ last.op = "TargetName::new"
    /\ last.name = <<"a", "/", ".", ".", "a">>
    /\ last.res.ok

\* the components of a path as the claim counts them: its non-empty pieces
Tokens(s) == SelectSeq(split(s), LAMBDA p : p # <<>>)

IsDot(p) == p = <<".">>

IsDotDot(p) == p = <<".", ".">>

\* left to right: "." is dropped, ".." removes the component kept last
RECURSIVE Walk(_, _, _)
Walk(ts, i, kept) ==
    IF i > Len(ts) THEN [ok |-> TRUE, kept |-> kept]
    ELSE IF IsDot(ts[i]) THEN Walk(ts, i + 1, kept)
    ELSE IF IsDotDot(ts[i])
         THEN IF kept = <<>> THEN [ok |-> FALSE]
              ELSE Walk(ts, i + 1, SubSeq(kept, 1, Len(kept) - 1))
    ELSE Walk(ts, i + 1, Append(kept, ts[i]))

RECURSIVE Joined(_)
Joined(cs) ==
    IF cs = <<>> THEN <<>>
    ELSE IF Len(cs) = 1 THEN cs[1]
    ELSE cs[1] \o <<"/">> \o Joined(Tail(cs))

Render(rooted, kept) == (IF rooted THEN <<"/">> ELSE <<>>) \o Joined(kept)

\* some ".." arrives when every component before it has been removed
ClimbsAbove(ts) ==
    \E k \in 1..Len(ts) :
        Cardinality({i \in 1..k : IsDotDot(ts[i])})
            > Cardinality({i \in 1..k : ~IsDot(ts[i]) /\ ~IsDotDot(ts[i])})

\* C24: normalize_path walks the components left to right, dropping "." and
\* letting ".." remove the component kept last; it fails exactly when a
\* ".." arrives while nothing is left to remove, and a successful result
\* has no "." and no ".." component.
C24_Normalize ==
    last.op = "normalize_path" =>
        LET ts == Tokens(last.path)
            w == Walk(ts, 1, <<>>)
        IN  /\ last.res.ok <=> w.ok
            /\ last.res.ok <=> ~ClimbsAbove(ts)
            /\ last.res.ok =>
                  /\ last.res.val = Render(is_absolute(last.path), w.kept)
                  /\ \A p \in Pieces(last.res.val) :
                        ~IsDot(Piece(last.res.val, p)) /\ ~IsDotDot(Piece(last.res.val, p))

C24_Witness ==
    /\ last.op = "normalize_path"
    /\ last.path = <<"a", "/", ".", ".", "/", "a">>
    /\ last.res = Ok(<<"a">>)

\* the components of the declaring target followed by those of the path
Below(rel_path, rel_to) == Tokens(rel_to.name) \o Tokens(rel_path)

\* C25 as stated: for a relative path m declared by raw target d,
\* resolve_rel_path(m, d) is the normalization of the components of d
\* followed by those of m, and fails when that normalization would climb
\* above the workspace root.
C25_ResolveIsNormalization ==
    (last.op = "resolve_rel_path" /\ ~is_absolute(last.rel_path)) =>
        LET w == Walk(Below(last.rel_path, last.rel_to), 1, <<>>)
        IN  IF w.ok THEN last.res = Ok(RawTarget(Render(FALSE, w.kept)))
            ELSE ~last.res.ok

\* C25, amended: for a relative path m declared by raw target d,
\* resolve_rel_path(m, d) is the normalization of the components of d
\* followed by those of m, and fails when that normalization would climb
\* above the workspace root or ends at the workspace root itself, where no
\* component is left to name a target.
C25_ResolveIsNormalizationBelowRoot ==
    (last.op = "resolve_rel_path" /\ ~is_absolute(last.rel_path)) =>
        LET w == Walk(Below(last.rel_path, last.rel_to), 1, <<>>)
        IN  IF w.ok /\ w.kept # <<>> THEN last.res = Ok(RawTarget(Render(FALSE, w.kept)))
            ELSE ~last.res.ok

C25_Witness ==
    /\ last.op = "resolve_rel_path"
    /\ last.rel_to = RawTarget(<<"a", "/", "a">>)
    /\ last.rel_path = <<".", ".", "/", ".", "a">>
    /\ last.res = Ok(RawTarget(<<"a", "/", ".", "a">>))

---------------------------------------------------------------------------
(* infer/icargo.rs and infer/py_requirements.rs. A parsed Cargo.toml is    *)
(* its two dependency tables, each in the order the HashMap iterates it;   *)
(* a requirements file is its lines, each with its trimmed text and, when  *)
(* an "@" is followed by "file://", the text after that marker.            *)

MaxDeps == 2

FailedParent(name, reason) == [name |-> name, reason |-> reason]

Simple == [kind |-> "Simple"]

Object(path) == [kind |-> "Object", path |-> path]

CargoToml(dependencies, dev_dependencies) ==
    [parses |-> TRUE, dependencies |-> dependencies, dev_dependencies |-> dev_dependencies]

\* a Cargo.toml that toml::from_str rejects
Malformed == [parses |-> FALSE]

Line(text, file) == [text |-> text, file |-> file]

starts_with(s, prefix) == Len(s) >= Len(prefix) /\ SubSeq(s, 1, Len(prefix)) = prefix

\* `(success, failed)` before the loop
NoParents == [success |-> <<>>, failed |-> <<>>]

\* `match dep { Simple(_) => None, Object(o) => o.path }`
maybe_path(dep) == IF dep.kind = "Simple" THEN None ELSE dep.path

\* the loop body that lets an absolute path pass unrecorded
push_parent_ignoring_absolute(acc, path, resolved) ==
    IF is_absolute(path) THEN acc
    ELSE IF resolved.ok THEN [acc EXCEPT !.success = Append(@, resolved.val)]
    ELSE [acc EXCEPT !.failed = Append(@, FailedParent(path, resolved.err))]

\* the loop body that forgets a path whose resolution fails
push_parent_forgetful(acc, path, resolved) ==
    IF is_absolute(path)
    THEN [acc EXCEPT !.failed = Append(@, FailedParent(path, "absolute paths are not allowed"))]
    ELSE IF resolved.ok THEN [acc EXCEPT !.success = Append(@, resolved.val)]
    ELSE acc

\* the body of the loop of deps_to_raw_targets for a dependency with a path:
\* `resolved` is what resolve_rel_path gives, asked for a relative path only
push_parent(acc, path, resolved) ==
    IF is_absolute(path)
    THEN [acc EXCEPT !.failed = Append(@, FailedParent(path, "absolute paths are not allowed"))]
    ELSE IF resolved.ok THEN [acc EXCEPT !.success = Append(@, resolved.val)]
    ELSE [acc EXCEPT !.failed = Append(@, FailedParent(path, resolved.err))]

RECURSIVE deps_to_raw_targets_from(_, _, _, _)
deps_to_raw_targets_from(our_target, deps, i, acc) ==
    IF i > Len(deps) THEN Ok(acc)
    ELSE IF ~maybe_path(deps[i]).some THEN deps_to_raw_targets_from(our_target, deps, i + 1, acc)
    ELSE deps_to_raw_targets_from(our_target, deps, i + 1,
            push_parent(acc, maybe_path(deps[i]).val,
                        resolve_rel_path(get_host_path(maybe_path(deps[i]).val), our_target)))

deps_to_raw_targets(our_target, deps) == deps_to_raw_targets_from(our_target, deps, 1, NoParents)

\* `s.extend(s1); f.extend(f1); Ok((s, f))`, after the two `?`
extended(first, second) ==
    IF ~first.ok THEN first
    ELSE IF ~second.ok THEN second
    ELSE Ok([success |-> first.val.success \o second.val.success,
             failed |-> first.val.failed \o second.val.failed])

\* get_parents: the dependencies, then the dev-dependencies
get_parents(our_target, cargo_toml) ==
    extended(deps_to_raw_targets(our_target, cargo_toml.dependencies),
             deps_to_raw_targets(our_target, cargo_toml.dev_dependencies))

\* Target::from_raw_target: the name of the raw target is validated again
Target_from_raw_target(rt, flavor) ==
    IF TargetName_new(rt.name).ok THEN Ok(Target(rt.name, flavor)) ELSE TargetName_new(rt.name)

cargo_inferred_breaking(parents, target) ==
    IF ~parents.ok THEN parents
    ELSE IF ~target.ok THEN target
    ELSE InferResult(One(Single(target.val, parents.val.success, parents.val.failed)), Break)

\* the Some(content) arm of CargoInfer::from_raw_target after parsing
cargo_inferred(parents, target) ==
    IF ~parents.ok THEN parents
    ELSE IF ~target.ok THEN target
    ELSE InferResult(One(Single(target.val, parents.val.success, parents.val.failed)), Continue)

\* CargoInfer::from_raw_target on the content of the package's Cargo.toml
CargoInfer_from_raw_target(content, t) ==
    IF ~content.some THEN InferResult(Nothing, Continue)
    ELSE IF ~content.val.parses THEN Err("manifest does not parse")
    ELSE cargo_inferred(get_parents(t, content.val), Target_from_raw_target(t, CARGO_FLAVOR))

\* get_file_names: a line that starts with "./" or "../" is a path, and so
\* is what follows "file://" after an "@"; a line can give both
RECURSIVE get_file_names(_)
get_file_names(lines) ==
    IF lines = <<>> THEN <<>>
    ELSE (IF starts_with(Head(lines).text, <<".", "/">>)
             \/ starts_with(Head(lines).text, <<".", ".", "/">>)
          THEN <<Head(lines).text>> ELSE <<>>)
         \o (IF Head(lines).file.some THEN <<Head(lines).file.val>> ELSE <<>>)
         \o get_file_names(Tail(lines))

\* the body of `for p in &parents` of PyRequirementsInfer::from_raw_target
py_push_parent(acc, p, res) ==
    IF is_absolute(p)
    THEN [acc EXCEPT !.failed = Append(@, FailedParent(p, "absolute paths are not allowed"))]
    ELSE IF res.ok THEN [acc EXCEPT !.success = Append(@, res.val)]
    ELSE [acc EXCEPT !.failed = Append(@, FailedParent(p, res.err))]

RECURSIVE py_parents_from(_, _, _, _)
py_parents_from(t, parents, i, acc) ==
    IF i > Len(parents) THEN acc
    ELSE py_parents_from(t, parents, i + 1,
            py_push_parent(acc, parents[i], resolve_rel_path(get_host_path(parents[i]), t)))

\* the Some(content) arm of PyRequirementsInfer::from_raw_target
py_inferred(parents, target) ==
    IF ~target.ok THEN target
    ELSE InferResult(One(Single(target.val, parents.success, parents.failed)), Continue)

\* PyRequirementsInfer::from_raw_target on the content of requirements.txt
PyRequirementsInfer_from_raw_target(content, t) ==
    IF ~content.some THEN InferResult(Nothing, Continue)
    ELSE py_inferred(py_parents_from(t, get_file_names(content.val), 1, NoParents),
                     Target_from_raw_target(t, FLAVOR))

---------------------------------------------------------------------------
(* The builder on a repository given by its manifests: the seed package Us *)
(* has a Cargo.toml, a requirements.txt, both or neither, declaring paths  *)
(* out of DepPaths; a package it declares has an empty Cargo.toml or none. *)
(* The default runner asks CargoInfer, then PyRequirementsInfer.           *)

Us == <<"a">>

\* "/a", "../..", "..", "../.a", "./.a" and "."
DepPaths ==
    {<<"/", "a">>, <<".", ".", "/", ".", ".">>, <<".", ".">>,
     <<".", ".", "/", ".", "a">>, <<".", "/", ".", "a">>, <<".">>}

Dependencies == {Simple, Object(None)} \cup {Object(Some(p)) : p \in DepPaths}

CargoTomls ==
    {CargoToml(t[1], t[2]) :
        t \in {u \in SeqsUpTo(Dependencies, MaxDeps) \X SeqsUpTo(Dependencies, MaxDeps) :
                  Len(u[1]) + Len(u[2]) <= MaxDeps}}

Lines ==
    {Line(p, None) : p \in DepPaths \cup {<<"a">>}}
    \cup {Line(<<"a">>, Some(p)) : p \in DepPaths}
    \cup {Line(<<".", "/", ".", "a">>, Some(<<"/", "a">>))}

ReqFiles == {ls \in SeqsUpTo(Lines, MaxDeps) : Len(get_file_names(ls)) <= MaxDeps}

NoDeps == CargoToml(<<>>, <<>>)

OwnManifests ==
    {[cargo |-> Some(c), reqs |-> None] : c \in CargoTomls \cup {Malformed}}
    \cup {[cargo |-> None, reqs |-> Some(ls)] : ls \in ReqFiles}
    \cup {[cargo |-> Some(NoDeps), reqs |-> Some(<<>>)], [cargo |-> None, reqs |-> None]}
    \cup {[cargo |-> Some(Malformed), reqs |-> Some(<<>>)]}

\* every name a path of DepPaths declared by Us can resolve to
PkgNames ==
    {Us} \cup {resolve_rel_path(p, RawTarget(Us)).val.name :
                  p \in {q \in DepPaths : ~is_absolute(q) /\ resolve_rel_path(q, RawTarget(Us)).ok}}

ParentsIn(res) ==
    IF res.ok /\ res.inferred_target.kind = "One"
    THEN {res.inferred_target.single.parents[k].name :
             k \in 1..Len(res.inferred_target.single.parents)}
    ELSE {}

DeclaredBy(m) ==
    ParentsIn(CargoInfer_from_raw_target(m.cargo, RawTarget(Us)))
    \cup ParentsIn(PyRequirementsInfer_from_raw_target(m.reqs, RawTarget(Us)))

InitManifests ==
    /\ g = TargetGraph_new
    /\ added = {}
    /\ \E m \in OwnManifests :
       \E present \in SUBSET (DeclaredBy(m) \ {Us}) :
          /\ last = [op |-> "none",
                     cargo |-> [n \in PkgNames |->
                                   IF n = Us THEN m.cargo
                                   ELSE IF n \in present THEN Some(NoDeps) ELSE None],
                     reqs |-> [n \in PkgNames |-> IF n = Us THEN m.reqs ELSE None]]
          /\ infers = [k \in 1..NumInfers |-> [n \in PkgNames |->
                          IF k = 1 THEN CargoInfer_from_raw_target(last.cargo[n], RawTarget(n))
                          ELSE IF k = 2
                               THEN PyRequirementsInfer_from_raw_target(last.reqs[n], RawTarget(n))
                          ELSE InferResult(Nothing, Continue)]]
    /\ start = <<RawTarget(Us)>>
    /\ si = 1
    /\ stack = <<>>
    /\ our_targets = <<>>
    /\ pc = "run"
    /\ calls = {}
    /\ warned = {}

NextManifests ==
    \/ BuildGraphCall
    \/ BuildGraphFail
    \/ RecSkip
    \/ RecAddNode
    \/ RecParentCall
    \/ RecParentFailed
    \/ RecReturn
    \/ BuildGraphReturn
    \/ BuildGraphDone

SpecManifests == InitManifests /\ [][NextManifests]_vars

---------------------------------------------------------------------------
(* Vocabulary of the manifest properties *)

Count(s, x) == Cardinality({i \in 1..Len(s) : s[i] = x})

\* the paths of the dependencies that have one, in order
PathsOf(deps) ==
    LET with_path == SelectSeq(deps, LAMBDA dep : dep.kind = "Object" /\ dep.path.some)
    IN  [i \in 1..Len(with_path) |-> with_path[i].path.val]

\* the paths the manifest of the seed package declares to plugin k, in the
\* order the plugin meets them; None when the plugin finds no manifest or
\* cannot parse it
Declared(k) ==
    IF k = 1
    THEN IF last.cargo[Us].some /\ last.cargo[Us].val.parses
         THEN Some(PathsOf(last.cargo[Us].val.dependencies)
                   \o PathsOf(last.cargo[Us].val.dev_dependencies))
         ELSE None
    ELSE IF last.reqs[Us].some THEN Some(get_file_names(last.reqs[Us].val)) ELSE None

Resolves(p) == ~is_absolute(p) /\ resolve_rel_path(p, RawTarget(Us)).ok

Names_of(s) == [i \in 1..Len(s) |-> s[i].name]

\* the Single plugin k answers for the seed package
Answered(k) == infers[k][Us].inferred_target.single

GivesOne(k) == infers[k][Us].ok /\ infers[k][Us].inferred_target.kind = "One"

\* the seed package has exactly one manifest, and it parses
OneManifest ==
    /\ last.cargo[Us].some # last.reqs[Us].some
    /\ last.cargo[Us].some => last.cargo[Us].val.parses

\* C26: an absolute path declared in a manifest ends up as a Failed Parent of
\* the declaring package, once for each time it is declared, never as a
\* parent raw target, and it makes neither the plugin call nor the graph
\* build fail: the plugin answers its Target whenever the manifest parses,
\* and the build fails only for a seed without exactly one parsing manifest.
C26_AbsoluteIsFailedParent ==
    /\ \A k \in 1..2 :
          Declared(k).some =>
             /\ GivesOne(k)
             /\ \A p \in Range(Declared(k).val) :
                   is_absolute(p) =>
                      /\ Count(Answered(k).failed_parents,
                               FailedParent(p, "absolute paths are not allowed"))
                            = Count(Declared(k).val, p)
                      /\ RawTarget(p) \notin Range(Answered(k).parents)
             /\ \A r \in Range(Answered(k).parents) : ~is_absolute(r.name)
             /\ Len(Answered(k).parents)
                   <= Cardinality({i \in 1..Len(Declared(k).val) : ~is_absolute(Declared(k).val[i])})
    /\ pc # "panic"
    /\ pc = "failed" => ~OneManifest

C26_Witness ==
    /\ pc = "done"
    /\ last.cargo[Us] = Some(CargoToml(<<Object(Some(<<"/", "a">>))>>,
                                       <<Object(Some(<<".", ".", "/", ".", "a">>))>>))
    /\ Answered(1).failed_parents = <<FailedParent(<<"/", "a">>, "absolute paths are not allowed")>>
    /\ Nodes(g) = {Target(Us, CARGO_FLAVOR), Target(<<".", "a">>, CARGO_FLAVOR)}

\* C27: a declared dependency whose resolution fails is recorded as a Failed
\* Parent only: the paths a manifest declares are split, in order, into the
\* parents (those that resolve) and the failed parents (the others), the
\* plugin answers its Target with those parents, and the graph holds nodes
\* only for the seed package and for packages among the parents, and edges
\* only from them to the seed package.
C27_FailedResolutionIsFailedParent ==
    /\ \A k \in 1..2 :
          Declared(k).some =>
             LET good == SelectSeq(Declared(k).val, Resolves)
                 bad == SelectSeq(Declared(k).val, LAMBDA p : ~Resolves(p))
             IN  /\ GivesOne(k)
                 /\ Answered(k).target = Target(Us, FlavorOf(k))
                 /\ Answered(k).parents
                       = [i \in 1..Len(good) |-> resolve_rel_path(good[i], RawTarget(Us)).val]
                 /\ Names_of(Answered(k).failed_parents) = bad
                 /\ Len(Answered(k).parents) + Len(Answered(k).failed_parents)
                       = Len(Declared(k).val)
    /\ LET parents == UNION {Range(Answered(k).parents) : k \in {j \in 1..2 : GivesOne(j)}}
       IN  /\ \A t \in Nodes(g) : t.name = Us \/ RawTarget(t.name) \in parents
           /\ \A e \in EdgePairs(g) : e[2].name = Us /\ RawTarget(e[1].name) \in parents

C27_Witness ==
    /\ pc = "done"
    /\ last.reqs[Us] = Some(<<Line(<<".", ".", "/", ".", ".">>, None),
                              Line(<<".", ".", "/", ".", "a">>, None)>>)
    /\ Names_of(Answered(2).failed_parents) = <<<<".", ".", "/", ".", ".">>>>
    /\ Answered(2).parents = <<RawTarget(<<".", "a">>)>>
    /\ Cardinality(Nodes(g)) = 2
    /\ EdgePairs(g) = {<<Target(<<".", "a">>, CARGO_FLAVOR), Target(Us, FLAVOR)>>}

\* the Targets that share the name of t under another flavor
Siblings(t) == {u \in GraphTargets : u.name = t.name /\ u # t}

Successors(gr, t) == {d \in Nodes(gr) : HasEdge(gr, t, d)}

\* C28: a node is the pair (name, flavor). Targets of one name and different
\* flavors are distinct nodes with edges of their own: add_node adds one
\* whether or not a sibling is present, contains_node answers for the very
\* pair, add_edge joins the very pairs it is given, and neighbors and rdeps
\* follow the edges of the pair they are asked about.
C28_NodeIsNameAndFlavor ==
    /\ \A t \in Nodes(g), u \in Nodes(g) :
          t # u => g.target_by_index[t] # g.target_by_index[u]
    /\ \A t \in GraphTargets : contains_node(g, t) <=> t \in added
    /\ last.op = "add_node" =>
          \A u \in GraphTargets \ {last.node} : contains_node(g, u) <=> contains_node(last.pre, u)
    /\ last.op = "contains_node" => (last.res <=> last.node \in added)
    /\ (last.op = "add_edge" /\ last.res.ok) =>
          EdgePairs(g) = EdgePairs(last.pre) \cup {<<last.src, last.dest>>}
    /\ (last.op = "neighbors" /\ last.res.ok) =>
          \A d \in Range(last.res.val) : HasEdge(last.pre, last.target, d)
    /\ (last.op = "rdeps" /\ last.res.ok) =>
          Range(last.res.val) = Reach(last.pre, Range(last.targets))

\* both flavors of one name are nodes, one of them with an edge, and the
\* other is asked for its neighbors
C28_Witness ==
    /\ last.op = "neighbors"
    /\ last.res = Ok(<<>>)
    /\ \E u \in Siblings(last.target) : Successors(last.pre, u) # {}

\* C29: neighbors(t) returns exactly the Targets d with an edge t -> d, each
\* once: the direct successors, no Target further along a path and no
\* predecessor; it is an error when t is not a node.
C29_NeighborsAreSuccessors ==
    last.op = "neighbors" =>
        IF contains_node(last.pre, last.target)
        THEN /\ last.res.ok
             /\ Range(last.res.val) = Successors(last.pre, last.target)
             /\ NoRepeat(last.res.val)
        ELSE ~last.res.ok /\ ~last.res.panic

\* neighbors of the middle node of a path of two edges
C29_Witness ==
    /\ last.op = "neighbors"
    /\ last.res.ok
    /\ Len(last.res.val) = 1
    /\ last.res.val[1] # last.target
    /\ \E p \in Nodes(last.pre) \ {last.target, last.res.val[1]} :
          HasEdge(last.pre, p, last.target)

---------------------------------------------------------------------------
(* commands/changeset.rs: from the changed files to the changed packages.  *)
(* A PathBuf keeps the spelling it was made from, and two of them are      *)
(* equal, and hash alike, when their components are.                       *)

MaxFiles == 2
MaxFileLen == 5

path_eq(p, q) == components(p) = components(q)

\* HashSet<PathBuf>::contains
contains(pkgs, p) == \E q \in pkgs : path_eq(p, q)

which_pkg_exact(p, pkgs) == IF contains(pkgs, p) THEN Some(p) ELSE None

\* the `while let Some(p) = cur` loop of which_pkg
RECURSIVE which_pkg_from(_, _)
which_pkg_from(cur, pkgs) ==
    IF ~cur.some THEN None
    ELSE IF contains(pkgs, cur.val) THEN Some(cur.val)
    ELSE which_pkg_from(parent(cur.val), pkgs)

which_pkg(p, pkgs) == which_pkg_from(Some(p), pkgs)

\* one iteration of `for f in files_to_find_diff`: the warning, the `?` on
\* TargetName::new, or the insert; nothing after an earlier `?` returned
after_file(acc, f, pkg) ==
    IF ~acc.res.ok THEN acc
    ELSE IF ~pkg.some THEN [acc EXCEPT !.warned = Append(@, f)]
    ELSE IF ~TargetName_new(pkg.val).ok THEN [acc EXCEPT !.res = TargetName_new(pkg.val)]
    ELSE [acc EXCEPT !.res = Ok(@.val \cup {pkg.val})]

RECURSIVE get_pkgs_to_search_from(_, _, _, _)
get_pkgs_to_search_from(files_to_find_diff, pkgs, i, acc) ==
    IF i > Len(files_to_find_diff) THEN acc
    ELSE get_pkgs_to_search_from(files_to_find_diff, pkgs, i + 1,
            after_file(acc, files_to_find_diff[i], which_pkg(files_to_find_diff[i], pkgs)))

\* get_pkgs_to_search: its result, and the files it warned about
get_pkgs_to_search(files_to_find_diff, pkgs) ==
    get_pkgs_to_search_from(files_to_find_diff, pkgs, 1, [res |-> Ok({}), warned |-> <<>>])

\* one iteration of `for p in pkgs` of to_raw_targets: the `?` on
\* RawTarget::from_string_name, or the push
after_pkg(acc, val) ==
    IF ~acc.ok THEN acc
    ELSE IF ~val.ok THEN val
    ELSE Ok(Append(acc.val, val.val))

RECURSIVE to_raw_targets_from(_, _, _)
to_raw_targets_from(order, i, acc) ==
    IF i > Len(order) THEN acc
    ELSE to_raw_targets_from(order, i + 1, after_pkg(acc, from_string_name(order[i])))

\* to_raw_targets, `order` being the order in which the HashSet is iterated
to_raw_targets(order) == to_raw_targets_from(order, 1, Ok(<<>>))

\* the iteration orders of a HashSet
Orderings(S) == {s \in [1..Cardinality(S) -> S] : Range(s) = S}

---------------------------------------------------------------------------
(* The changed files and the discovered packages: get_nabs_packages gives  *)
(* the directory of every nabs.json relative to the workspace root, the    *)
(* empty path for the root itself; get_input gives non-empty words.        *)

\* "", "a", "a/a" and "aa"
DiscoveredDirs == {<<>>, <<"a">>, <<"a", "/", "a">>, <<"a", "a">>}

\* "a/a" and "aa"
SomeFiles == {<<"a", "/", "a">>, <<"a", "a">>}

FileLists ==
    {<<>>}
    \cup {<<f>> \o more : f \in Strings(MaxFileLen) \ {<<>>},
                          more \in SeqsUpTo(SomeFiles, MaxFiles - 1)}
    \cup {more \o <<f>> : f \in Strings(MaxFileLen) \ {<<>>},
                          more \in SeqsUpTo(SomeFiles, MaxFiles - 1)}

InitChangeset ==
    /\ g = TargetGraph_new
    /\ added = {}
    /\ infers = <<>>
    /\ start = <<>>
    /\ si = 1
    /\ stack = <<>>
    /\ our_targets = <<>>
    /\ pc = "changeset"
    /\ calls = {}
    /\ warned = {}
    /\ \E files \in FileLists, pkgs \in SUBSET DiscoveredDirs :
          last = [op |-> "none", files |-> files, pkgs |-> pkgs]

CallGetPkgsToSearch ==
    /\ pc = "changeset"
    /\ last' = [op |-> "get_pkgs_to_search", files |-> last.files, pkgs |-> last.pkgs,
                res |-> get_pkgs_to_search(last.files, last.pkgs).res,
                warned |-> get_pkgs_to_search(last.files, last.pkgs).warned]
    /\ pc' = "searched"
    /\ UNCHANGED <<g, added, builderVars>>

CallToRawTargets ==
    /\ pc = "changeset"
    /\ \E order \in Orderings(last.pkgs) :
          last' = [op |-> "to_raw_targets", pkgs |-> last.pkgs, res |-> to_raw_targets(order)]
    /\ pc' = "converted"
    /\ UNCHANGED <<g, added, builderVars>>

NextChangeset ==
    \/ CallGetPkgsToSearch
    \/ CallToRawTargets

SpecChangeset == InitChangeset /\ [][NextChangeset]_vars

---------------------------------------------------------------------------
(* Vocabulary of the changeset properties *)

IsPrefix(s, t) == Len(s) <= Len(t) /\ SubSeq(t, 1, Len(s)) = s

\* directory q is the path f or one of its ancestors; the workspace root is
\* an ancestor of the relative paths only
OnChain(q, f) ==
    /\ IsPrefix(components(q), components(f))
    /\ q = <<>> => ~is_absolute(f)

Owners(f, pkgs) == {q \in pkgs : OnChain(q, f)}

Nearest(f, pkgs) ==
    CHOOSE q \in Owners(f, pkgs) : \A r \in Owners(f, pkgs) : Len(components(r)) <= Len(components(q))

\* C30: each changed file is mapped to the nearest discovered package
\* directory among the file path itself and its ancestors, the deepest one
\* when packages are nested; a file with no discovered package on that chain
\* contributes no package and a warning, and is never what makes
\* get_pkgs_to_search fail.
C30_NearestPackage ==
    last.op = "get_pkgs_to_search" =>
        LET owned == SelectSeq(last.files, LAMBDA f : Owners(f, last.pkgs) # {})
            stray == SelectSeq(last.files, LAMBDA f : Owners(f, last.pkgs) = {})
        IN  /\ \A f \in Range(last.files) :
                  IF Owners(f, last.pkgs) = {} THEN which_pkg(f, last.pkgs) = None
                  ELSE /\ which_pkg(f, last.pkgs).some
                       /\ path_eq(which_pkg(f, last.pkgs).val, Nearest(f, last.pkgs))
            /\ last.res.ok =>
                  /\ last.res.val = {Nearest(f, last.pkgs) : f \in Range(owned)}
                  /\ last.warned = stray
            /\ ~last.res.ok =>
                  /\ \E f \in Range(owned) : ~TargetName_new(which_pkg(f, last.pkgs).val).ok
                  /\ IsPrefix(last.warned, stray)
            /\ owned = <<>> => last.res = Ok({})

\* a file inside nested packages, and a file outside any package
C30_Witness ==
    /\ last.op = "get_pkgs_to_search"
    /\ last.pkgs = {<<"a">>, <<"a", "/", "a">>}
    /\ last.files = <<<<"a", "/", "a", "/", "a">>, <<"a", "a">>>>
    /\ last.res = Ok({<<"a", "/", "a">>})
    /\ last.warned = <<<<"a", "a">>>>

\* C31: an owning package that cannot be resolved to a valid canonical name,
\* such as a package discovered at the workspace root, only produces a
\* warning: neither get_pkgs_to_search nor to_raw_targets, and so not the
\* changeset command that returns their errors, fails because of it.
C31_UnresolvableOwnerIsWarning ==
    /\ last.op = "get_pkgs_to_search" => last.res.ok
    /\ last.op = "to_raw_targets" => last.res.ok

---------------------------------------------------------------------------
(* The default runner on the manifests of one package directory *)

HasCargo == last.cargo[Us].some
HasReqs == last.reqs[Us].some
CargoParses == HasCargo => last.cargo[Us].val.parses

OneTargetOf(res, flavor) ==
    /\ res.ok
    /\ Len(res.val) = 1
    /\ res.val[1].target = Target(Us, flavor)

\* With the Cargo plugin first and the requirements plugin second, a package
\* directory with both Cargo.toml and requirements.txt fails inference with
\* the ambiguity error, one with neither fails with the absence error, and
\* one with exactly one of them yields exactly one Target of that flavor.
C32_ManifestsDecide ==
    /\ HasCargo /\ HasReqs => Inferred(Us) = AmbiguityError
    /\ ~HasCargo /\ ~HasReqs => Inferred(Us) = Err("could not infer any target")
    /\ HasCargo /\ ~HasReqs => OneTargetOf(Inferred(Us), CARGO_FLAVOR)
    /\ ~HasCargo /\ HasReqs => OneTargetOf(Inferred(Us), FLAVOR)

\* C32: the same for the directories whose Cargo.toml, if there is one,
\* parses; a Cargo.toml that does not parse makes inference fail with the
\* plugin's error whether or not there is a requirements.txt. The build of
\* the seed directory ends accordingly.
C32_ParsingManifestsDecide ==
    /\ \A k \in 1..2 : infers[k][Us].ok => infers[k][Us].what_next = Continue
    /\ CargoParses =>
          /\ HasCargo /\ HasReqs => Inferred(Us) = AmbiguityError
          /\ ~HasCargo /\ ~HasReqs => Inferred(Us) = Err("could not infer any target")
          /\ HasCargo /\ ~HasReqs => OneTargetOf(Inferred(Us), CARGO_FLAVOR)
          /\ ~HasCargo /\ HasReqs => OneTargetOf(Inferred(Us), FLAVOR)
    /\ ~CargoParses => Inferred(Us) = Err("failed in building graph of targets")
    /\ pc = "failed" => ~Inferred(Us).ok
    /\ pc = "done" => Inferred(Us).ok
    /\ pc = "done" => our_targets \in {<<Target(Us, CARGO_FLAVOR)>>, <<Target(Us, FLAVOR)>>}

\* a directory with both manifests has failed with the ambiguity error
C32_Witness ==
    /\ pc = "failed"
    /\ last.cargo[Us] = Some(NoDeps)
    /\ last.reqs[Us] = Some(<<>>)
    /\ Inferred(Us) = AmbiguityError

---------------------------------------------------------------------------
(* Failing calls of build_graph_rec *)

\* C33: a call of build_graph_rec that returns an error leaves the graph as
\* it was when the call started. A call fails only in its own inference
\* step: the call for a seed, which ends build_graph, or the call for a
\* parent, which the enclosing call reports as a warning and survives; no
\* step that fails touches the graph, and no call that has got past its
\* inference step ever fails.
C33_FailedCallLeavesGraph ==
    [][/\ pc' = "failed" =>
             /\ g' = g
             /\ stack = <<>> /\ stack' = <<>>
             /\ ~run_inf(start[si]).ok
       /\ warned' # warned =>
             /\ g' = g
             /\ pc' = "run"
             /\ Len(stack') = Len(stack)
             /\ \A k \in 1..Len(stack) - 1 : stack'[k] = stack[k]
             /\ \E w \in warned' : ~run_inf(RawTarget(w.package)).ok /\ warned' = warned \cup {w}
       /\ g' # g => pc' = "run" /\ warned' = warned
       /\ pc' # "panic"]_vars

\* a parent's call failed inside a graph that already had nodes and edges,
\* and a later seed's call failed too
C33_Witness ==
    /\ pc = "failed"
    /\ warned # {}
    /\ EdgePairs(g) # {}

---------------------------------------------------------------------------
(* build_graph on the seeds in every order. to_raw_targets makes the seeds *)
(* from a HashSet of package paths: each package once, in any order.       *)

MaxSeeds == 2

AnyOrderSeedLists == {sq \in SeqsUpTo(RawTargets, MaxSeeds) : NoRepeat(sq)}

InitSeeds ==
    /\ g = TargetGraph_new
    /\ last = NoCall
    /\ added = {}
    /\ \E desc \in Repositories :
          infers = [k \in 1..NumInfers |-> [n \in Names |-> Column(n, desc[n])[k]]]
    /\ start \in AnyOrderSeedLists
    /\ si = 1
    /\ stack = <<>>
    /\ our_targets = <<>>
    /\ pc = "run"
    /\ calls = {}
    /\ warned = {}

NextSeeds ==
    \/ BuildGraphCall
    \/ BuildGraphFail
    \/ RecSkip
    \/ RecAddNode
    \/ RecParentCall
    \/ RecParentFailed
    \/ RecReturn
    \/ BuildGraphReturn
    \/ BuildGraphDone

SpecSeeds == InitSeeds /\ [][NextSeeds]_vars

\* the packages reached from the packages S through the parents declared by
\* the Targets of packages whose inference succeeds
RECURSIVE PkgsFrom(_)
PkgsFrom(S) ==
    LET more == S \cup {p.name : p \in UNION {DeclaredParents(t) : t \in UNION {TargetsOfPkg(n) : n \in S}}}
    IN  IF more = S THEN S ELSE PkgsFrom(more)

\* the graph of a set of seeds: the Targets of the packages reached, and an
\* edge into each of them from every Target of each of its parents
NodesFrom(S) == UNION {TargetsOfPkg(n) : n \in PkgsFrom(S)}

EdgesFrom(S) ==
    {e \in NodesFrom(S) \X NodesFrom(S) : RawTarget(e[1].name) \in DeclaredParents(e[2])}

\* C34: the graph of a successful build_graph depends on the set of seeds
\* only, not on their order: its nodes and its edges are those determined by
\* the seed set, and whether build_graph fails is determined by the seed set
\* too (it fails exactly when some seed's inference fails).
C34_SeedOrderIrrelevant ==
    /\ pc = "done" =>
          /\ Nodes(g) = NodesFrom(SeedNames)
          /\ EdgePairs(g) = EdgesFrom(SeedNames)
          /\ \A n \in SeedNames : Inferred(n).ok
    /\ pc = "failed" => \E n \in SeedNames : ~Inferred(n).ok
    /\ pc \notin {"run", "done", "failed"} => FALSE
    /\ (\E n \in SeedNames : ~Inferred(n).ok) => pc # "done"

\* a finished build whose seeds were given against the order of their
\* declarations: c first, then b whose Target declares c and a
C34_Witness ==
    /\ pc = "done"
    /\ start = <<RawTarget("c"), RawTarget("b")>>
    /\ Cardinality(EdgePairs(g)) >= 2
    /\ \E t \in TargetsOfPkg("b") :
          {RawTarget("c"), RawTarget("a")} \subseteq DeclaredParents(t)

---------------------------------------------------------------------------
(* Nothing spurious in the graph being built *)

\* C35: at every point of build_graph, every node is a Target that a
\* successful inference returned for a seed or for a package reached from a
\* seed through declared parents, and every edge A -> B is justified by the
\* inference result of B listing the raw target of A among the parents of B.
C35_NothingSpurious ==
    /\ Nodes(g) \subseteq NodesFrom(SeedNames)
    /\ \A e \in EdgePairs(g) :
          /\ e[1] \in Nodes(g) /\ e[2] \in Nodes(g)
          /\ \E s \in SinglesOf(e[2].name) :
                s.target = e[2] /\ RawTarget(e[1].name) \in Range(s.parents)

\* a finished build with a node that is not a seed, reached through a
\* declared parent, next to a declared parent that failed and is no node
C35_Witness ==
    /\ pc = "done"
    /\ warned # {}
    /\ \E e \in EdgePairs(g) : e[1].name \notin SeedNames
    /\ \A w \in warned : w.package \notin Built(g)

---------------------------------------------------------------------------
(* The seed targets and rdeps *)

RECURSIVE IsSubList(_, _)
IsSubList(sub, whole) ==
    IF sub = <<>> THEN TRUE
    ELSE IF whole = <<>> THEN FALSE
    ELSE IF Head(sub) = Head(whole) THEN IsSubList(Tail(sub), Tail(whole))
    ELSE IsSubList(sub, Tail(whole))

\* C36: every Target of the seed targets a successful build_graph returns is
\* a node of the graph it returns, so rdeps on the seed targets, and on the
\* sub-list of them changeset keeps after filtering by name, does not fail.
C36_SeedTargetsAreNodes ==
    /\ pc = "done" =>
          /\ \A k \in 1..Len(our_targets) : contains_node(g, our_targets[k])
          /\ rdeps(g, our_targets).ok
    /\ pc = "answered" =>
          /\ IsSubList(last.targets, our_targets)
          /\ \A k \in 1..Len(last.targets) : contains_node(last.pre, last.targets[k])
          /\ last.res.ok

\* changeset asked for the dependents of a proper, non-empty part of the seed
\* targets
C36_Witness ==
    /\ pc = "answered"
    /\ last.targets # <<>>
    /\ Len(last.targets) < Len(our_targets)
    /\ last.res.ok
    /\ Len(last.res.val) > Len(last.targets)

---------------------------------------------------------------------------
(* rdeps on cyclic graphs and repeated starts *)

HasCycle(gr) == \E t \in Nodes(gr) : \E e \in EdgePairs(gr) : e[1] = t /\ e[2] \in Reach(gr, {t}) /\ t \in Reach(gr, {e[2]})

HasSelfLoop(gr) == \E e \in EdgePairs(gr) : e[1] = e[2]

\* C37: on a graph with cycles or self-loops, and for starts with repeated
\* Targets or none at all, rdeps still terminates, after at most one pop for
\* each start and each edge, and returns every node reachable from the starts
\* exactly once; with no starts it returns nothing.
C37_RdepsOnCycles ==
    (/\ last.op = "rdeps"
     /\ \A k \in 1..Len(last.targets) : contains_node(last.pre, last.targets[k])
     /\ \/ HasCycle(last.pre)
        \/ ~NoRepeat(last.targets)
        \/ last.targets = <<>>) =>
        /\ last.res.ok
        /\ Range(last.res.val) = Reach(last.pre, Range(last.targets))
        /\ \A t \in Reach(last.pre, Range(last.targets)) : Count(last.res.val, t) = 1
        /\ last.targets = <<>> => last.res.val = <<>>
        /\ dfs_pops(last.pre.inner, rdeps_indices(last.pre, last.targets, 1).val, {})
              <= Len(last.targets) + Len(last.pre.inner.edges)

\* the same start twice, on a two-node cycle
C37_Witness ==
    /\ last.op = "rdeps"
    /\ Len(last.targets) = 2
    /\ last.targets[1] = last.targets[2]
    /\ HasCycle(last.pre)
    /\ ~HasSelfLoop(last.pre)
    /\ last.res.ok
    /\ Len(last.res.val) = 2

---------------------------------------------------------------------------
(* The lookup maps of TargetGraph *)

\* C38: after any sequence of add_node and add_edge calls the two lookup
\* maps are mutually inverse bijections between the stored Targets and the
\* node indices of the inner graph, every edge endpoint is a mapped index,
\* and so no lookup of rdeps, neighbors or the textual rendering fails as
\* corrupted graph state.
C38_MapsAreInverse ==
    /\ DOMAIN g.target_by_index = added
    /\ DOMAIN g.index_by_target = 0..g.inner.node_count - 1
    /\ \A t \in DOMAIN g.target_by_index :
          /\ g.target_by_index[t] \in DOMAIN g.index_by_target
          /\ g.index_by_target[g.target_by_index[t]] = t
    /\ \A i \in DOMAIN g.index_by_target :
          /\ g.index_by_target[i] \in DOMAIN g.target_by_index
          /\ g.target_by_index[g.index_by_target[i]] = i
    /\ \A k \in 1..Len(g.inner.edges) :
          /\ g.inner.edges[k][1] \in DOMAIN g.index_by_target
          /\ g.inner.edges[k][2] \in DOMAIN g.index_by_target
    /\ last.op \in {"rdeps", "neighbors", "fmt"} =>
          \/ last.res.ok
          \/ ~last.res.panic /\ last.res.err = "index not found"

\* the rendering of a graph of three nodes and two edges
C38_Witness ==
    /\ last.op = "fmt"
    /\ last.res.ok
    /\ Len(last.res.val) = 3
    /\ Len(g.inner.edges) = 2
    /\ \E n \in 1..3 : Len(last.res.val[n].neighbors) = 2

---------------------------------------------------------------------------
(* The names resolve_rel_path gives *)

\* C39: every raw target resolve_rel_path returns has a name that satisfies
\* the canonical-name invariants; a path that resolves exactly to the
\* workspace root, such as ".." declared by a top-level package, is an error
\* and not a raw target with an empty name, and "." resolves to the
\* declaring package itself.
C39_ResolvedNamesAreCanonical ==
    last.op = "resolve_rel_path" =>
        /\ last.res.ok =>
              /\ last.res.val.name # <<>>
              /\ WellFormedName(last.res.val.name)
              /\ TargetName_new(last.res.val.name) = Ok(last.res.val.name)
        /\ (~is_absolute(last.rel_path) /\ normalize_path(join(last.rel_to.name, last.rel_path)) = Ok(<<>>))
              => ~last.res.ok
        /\ (last.rel_path = <<".", ".">> /\ \A i \in 1..Len(last.rel_to.name) : last.rel_to.name[i] # "/")
              => ~last.res.ok
        /\ last.rel_path = <<".">> => last.res = Ok(last.rel_to)

\* ".." declared by the top-level package "a" has been refused
C39_Witness ==
    /\ last.op = "resolve_rel_path"
    /\ last.rel_path = <<".", ".">>
    /\ last.rel_to = RawTarget(<<"a">>)
    /\ ~last.res.ok

---------------------------------------------------------------------------
(* Packages that infer to no Target *)

\* C40: every successful run_inf returns at least one Target, so after a
\* successful build_graph every seed contributes at least one Target to the
\* seed targets and at least one node to the graph.
C40_SuccessGivesTarget ==
    /\ \A k \in 1..Len(stack) : run_inf(stack[k].raw).ok /\ Len(stack[k].ours) >= 1
    /\ pc = "done" =>
          \A k \in 1..Len(start) :
             \E t \in Range(our_targets) : t.name = start[k].name /\ contains_node(g, t)

============================================================================
